---- MODULE Spec2Model ----
(***************************************************************************)
(* Model of the metadata authoring workflows of taf/developer_tool.py:     *)
(* create_repository (with _enter_roles_infos), add_signing_key,           *)
(* register_target_files (_write_targets_metadata),                        *)
(* update_metadata_expiration_date, the key loading routine                *)
(* _load_signing_keys they share, setup_signing_yubikey, the scans of the  *)
(* target repositories' directory: update_target_repos_from_fs             *)
(* (_update_target_repos), update_target_repos_from_repositories_json and  *)
(* generate_repositories_json, init_repo, which calls four of them in      *)
(* turn, and the repo update command of taf/tools/repo/__init__.py.        *)
(*                                                                         *)
(* One run of the model is one call of one operation; add_signing_key runs *)
(* beside a second session that calls it too.  Every interactive prompt    *)
(* (click.confirm, input, yubikey_prompt, key_cmd_prompt) and every read   *)
(* of the keystore is an action whose answer is drawn from the answers the *)
(* call can get, including the prompt raising.  The history variables tell *)
(* what the running operation has done; when init_repo goes from one       *)
(* operation to the next they start anew and stepsLog keeps how the        *)
(* operation before ended.                                                 *)
(***************************************************************************)
EXTENDS Integers, Sequences, FiniteSets, TLC

\* ------------------------------------------------------------------ bounds
\* Largest number of keys of a role (key_info["number"], len(role keys)).
MaxKeys == 2
\* Largest day number for start_date, and largest interval, of an expiration update.
MaxDate == 2
\* Expiration recorded for every role before update_metadata_expiration_date runs.
InitialExpiry == 1

\* ------------------------------------------------------------------ names
RoleNames == {"root", "targets", "snapshot", "timestamp", "delegated"}
\* Roles that roles_key_infos of create_repository may name.
ConfigRoles == {"root", "targets", "delegated"}
\* role_key_infos[role].get("yubikey") as _load_signing_keys sees it.
YkInfo == {"true", "false", "none"}
NoRole == "-"
\* The three roles register_target_files signs.
SignedRoles == {"targets", "snapshot", "timestamp"}
\* Entries of the directory root_dir/namespace: the authentication repository itself,
\* two target repositories, a plain file and a directory that is not a git repository.
EntryNames == {"auth", "a", "b", "f", "d"}
\* A file that does not exist.
NoFile == <<"no file">>
\* A local variable that no assignment has reached.
Unassigned == "unassigned"
\* update_repository has not been called.
NotCalled == <<"not called">>

VARIABLES
    op,                 \* the operation that is running
    pc,                 \* position in the operation's code
    outcome,            \* "running", or how the call ended
    keystore,           \* keystore is not None
    rolesSeq,           \* roles_key_infos.items(): role names in dict order
    yubikey,            \* role -> key_info.get("yubikey", False)
    number,             \* role -> key_info.get("number", 1), 0 until read
    threshold,          \* role -> role_obj.threshold
    vkeys,              \* role -> verification keys of the role (key slots)
    skeys,              \* role -> signing keys loaded with load_signing_key
    providers,          \* role -> keys with an external signature provider
    pass,               \* create_repository: 1 = first for loop, 2 = second
    idx,                \* create_repository: index into rolesSeq
    key_num,            \* _register_roles_keys: key_num of the for loop
    use_existing,       \* _register_yubikey: use_existing
    regDone,            \* roles whose _register_roles_keys call has returned
    keystoreFailed,     \* a keystore read has raised KeystoreError in this operation
    keystoreWritten,    \* generate_and_write_rsa_keypair has written a key file
    tokenStarted,       \* _register_yubikey has been entered
    tokenPrompted,      \* yk.yubikey_prompt has been called
    tokenWiped,         \* yk.setup_new_yubikey has been called
    written,            \* number of writeall() executions
    committed,          \* auth_repo.commit() has been executed
    role,               \* role argument (add_signing_key, expiration update, key loading)
    rootOld,            \* add_signing_key: root keys before add_metadata_key
    keys_num,           \* add_signing_key: keys_num; _load_signing_keys: signing_keys_num
    num_of_signatures,  \* num_of_signatures of the running key loop
    all_loaded,         \* all_loaded of the running key loop
    loaded_yubikeys,    \* set of <<role, key>> loaded through yubikey_prompt
    keys,               \* _load_signing_keys: keys (list of key names, 0 = role, i = role+i)
    ks_idx,             \* _load_signing_keys: index into key_names
    is_yubikey,         \* _load_signing_keys: role_key_infos[role].get("yubikey")
    phase,              \* _write_targets_metadata: role whose keys are being loaded
    loadedKeys,         \* role -> keys returned by _load_signing_keys, or <<-1>> before the call
    updated,            \* sequence of roles updated in memory / re-signed, in order
    fileWrites,         \* metadata files written outside writeall (update methods, write=True)
    expiration,         \* role -> expiration day
    loopLog,            \* what the running key loading has done, in order: "file", "more",
                        \* "stop", "token", "cmd"
    repoCreated,        \* create_new_repository has been called
    declinedGenerate,   \* "Generate new keys?" was answered no
    curKeyWritten,      \* a keystore file was written for the key being registered
    targetsAdded,       \* paths passed to add_existing_target, in call order
    emitted,            \* paths of the targets entries of the written targets metadata
    glob,               \* targets_directory.glob("*"): entry names in enumeration order
    gi,                 \* index of the for loop over glob
    namespace,          \* namespace after _get_namespace_and_root ("" when empty)
    add_branch,         \* add_branch argument
    targets_relative_dir, \* targets_relative_dir is not None
    custom_data,        \* namespaced names custom_data has an entry for
    descriptors,        \* entry name -> content of <targets_dir>/<name>
    repositories,       \* generate_repositories_json: repositories, in insertion order
    repositories_json,  \* content of targets/repositories.json
    acquired,           \* role -> keys _load_signing_keys has acquired for the role
    roundLog,           \* answers and token operations of the running prompt round
    roles_entered,      \* _enter_roles_infos has asked for the roles
    left_empty,         \* roles whose number of keys was entered as an empty line
    targets_dir,        \* update_target_repos_from_repositories_json: targets_dir
    format_output,      \* repo update: --format-output
    statuses,           \* repo update: the JSON status objects printed, in order
    update_result,      \* repo update: how the call of update_repository ended
    other,              \* position of a second session working on the same repository
    caller,             \* "init_repo" when init_repo calls the operations, else "none"
    stepsLog            \* init_repo: the calls made and their returns, in order

vars == <<op, pc, outcome, keystore, rolesSeq, yubikey, number, threshold, vkeys,
          skeys, providers, pass, idx, key_num, use_existing, regDone,
          keystoreFailed, keystoreWritten, tokenStarted, tokenPrompted, tokenWiped,
          written, committed, role, rootOld, keys_num, num_of_signatures, all_loaded,
          loaded_yubikeys, keys, ks_idx, is_yubikey, phase, loadedKeys, updated,
          fileWrites, expiration, loopLog, repoCreated, declinedGenerate, curKeyWritten,
          targetsAdded, emitted, glob, gi, namespace, add_branch, targets_relative_dir,
          custom_data, descriptors, repositories, repositories_json, acquired,
          roundLog, roles_entered, left_empty, targets_dir, format_output, statuses,
          update_result,          other, caller, stepsLog>>

\* Variables of the role model (tuf repository object).
roleVars == <<threshold, vkeys, skeys, providers>>
\* Variables of create_repository's loops and its inputs.
createVars == <<rolesSeq, yubikey, number, pass, idx, key_num, use_existing, regDone>>
\* History of what a run has done to keystore and tokens.
histVars == <<keystoreFailed, keystoreWritten, tokenStarted, tokenPrompted, tokenWiped>>
\* Variables of add_signing_key and _load_signing_keys.
loadVars == <<role, rootOld, keys_num, num_of_signatures, all_loaded, loaded_yubikeys,
              keys, ks_idx, is_yubikey, phase, loadedKeys>>
\* What has reached memory and disk.
diskVars == <<written, committed, updated, fileWrites, expiration>>
\* History of create_repository's repository creation and keystore writes.
createHist == <<repoCreated, declinedGenerate, curKeyWritten>>
\* Targets registered by register_target_files and the entries written for them.
targetVars == <<targetsAdded, emitted>>
\* Variables of the scans of root_dir/namespace (update_target_repos_from_fs,
\* generate_repositories_json).
scanVars == <<glob, gi, namespace, add_branch, targets_relative_dir, custom_data,
              descriptors, repositories, repositories_json>>

\* The interactive entry of roles and the prompt rounds of the token set-up.
promptVars == <<roundLog, roles_entered, left_empty>>
\* Variables of the repo update command.
cmdVars == <<format_output, statuses, update_result>>
\* The composition of operations by init_repo, and the second session.
sessionVars == <<caller, stepsLog, other>>

\* ------------------------------------------------------------------ helpers
\* All sequences of distinct elements of S, the empty one included.
RECURSIVE Orderings(_)
Orderings(S) ==
    IF S = {} THEN {<<>>}
    ELSE {<<>>} \cup UNION {{<<x>> \o s : s \in Orderings(S \ {x})} : x \in S}

\* All orders of the elements of S.
Perms(S) == {s \in Orderings(S) : Len(s) = Cardinality(S)}

\* Files of the authentication repository's worktree, as sequences of path components.
RepoFiles == {<<"targets", "a">>, <<"targets", "z", "a">>, <<"targets", "z", "b">>,
              <<"metadata", "root.json">>}
\* The names of path components in lexicographic order.
NameOrder == <<"a", "auth", "b", "d", "f", "metadata", "ns", "root.json", "targets", "z">>
NameRank(n) == CHOOSE i \in 1..Len(NameOrder) : NameOrder[i] = n

\* Lexicographic order of POSIX paths, component by component.
RECURSIVE PathLess(_, _)
PathLess(p, q) ==
    IF p = <<>> THEN q # <<>>
    ELSE IF q = <<>> THEN FALSE
    ELSE IF Head(p) = Head(q) THEN PathLess(Tail(p), Tail(q))
    ELSE NameRank(Head(p)) < NameRank(Head(q))

\* dir is a proper prefix of path p.
IsBelow(dir, p) == Len(p) > Len(dir) /\ SubSeq(p, 1, Len(dir)) = dir
\* The files directly in dir, and the directories directly in dir.
FilesIn(dir) == {p \in RepoFiles : IsBelow(dir, p) /\ Len(p) = Len(dir) + 1}
SubDirs(dir) == {SubSeq(p, 1, Len(dir) + 1) :
                     p \in {q \in RepoFiles : IsBelow(dir, q) /\ Len(q) > Len(dir) + 1}}

\* os.walk(top): the orders in which the files below top can be enumerated: the files
\* of a directory in any order, then its subdirectories in any order, each walked the
\* same way.
RECURSIVE WalkOrders(_)
WalkOrders(dir) ==
    LET RECURSIVE Below(_)
        Below(ds) == IF ds = <<>> THEN {<<>>}
                     ELSE {w \o rest : w \in WalkOrders(Head(ds)), rest \in Below(Tail(ds))}
    IN  {f \o r : f \in Perms(FilesIn(dir)),
                  r \in UNION {Below(ds) : ds \in Perms(SubDirs(dir))}}

\* _role_obj: the role object of a top-level role, None for any other name.
RoleObjIsNone(r) == r \notin {"targets", "snapshot", "timestamp", "root"}

\* A single loop that registers every role in dict order, token-backed or not.
InPassSingleLoop(p, r) == p = 1
\* create_repository's two for loops: the first registers the roles whose
\* key_info.get("yubikey", False) is false, the second those for which it is true.
InPass(p, r) == IF p = 1 THEN ~yubikey[r] ELSE yubikey[r]

CurRole == rolesSeq[idx]

Finish(how) == /\ pc' = "done"
               /\ outcome' = how

\* ------------------------------------------------------------------ Init
InitCommon ==
    /\ outcome = "running"
    /\ number = [r \in RoleNames |-> 0]
    /\ skeys = [r \in RoleNames |-> {}]
    /\ providers = [r \in RoleNames |-> {}]
    /\ pass = 1
    /\ idx = 1
    /\ key_num = 0
    /\ use_existing = FALSE
    /\ regDone = {}
    /\ keystoreFailed = FALSE
    /\ keystoreWritten = FALSE
    /\ tokenStarted = FALSE
    /\ tokenPrompted = FALSE
    /\ tokenWiped = FALSE
    /\ written = 0
    /\ committed = FALSE
    /\ num_of_signatures = 0
    /\ all_loaded = FALSE
    /\ loaded_yubikeys = {}
    /\ keys = <<>>
    /\ ks_idx = 0
    /\ is_yubikey = "none"
    /\ phase = NoRole
    /\ loadedKeys = [r \in RoleNames |-> <<-1>>]
    /\ updated = <<>>
    /\ fileWrites = <<>>
    /\ expiration = [r \in RoleNames |-> InitialExpiry]
    /\ loopLog = <<>>
    /\ repoCreated = FALSE
    /\ declinedGenerate = FALSE
    /\ curKeyWritten = FALSE
    /\ targetsAdded = <<>>
    /\ emitted = <<>>
    /\ acquired = [r \in RoleNames |-> 0]
    /\ roundLog = <<>>
    /\ roles_entered = FALSE
    /\ left_empty = {}
    /\ targets_dir = Unassigned
    /\ statuses = <<>>
    /\ update_result = NotCalled
    /\ stepsLog = <<>>

\* The operation is called directly, by the only session working on the repository.
InitSingle ==
    /\ caller = "none"
    /\ other = "none"
    /\ format_output = FALSE

\* The content of a descriptor written by an earlier run.
StaleData == <<<<"commit", <<"sha", "old">>>>>>
\* Namespaces the scans run with: the empty one and a named one.
Namespaces == {"", "ns"}
\* The files under the auth repo's targets directory before the operation, by
\* <<namespace directory, file name>>: some entries have a file of an earlier run.
InitialDescriptors ==
    [p \in Namespaces \X EntryNames |-> IF p[2] \in {"a", "auth", "f"} THEN StaleData ELSE NoFile]

\* No scan of root_dir/namespace is part of the operation.
InitNoScan ==
    /\ glob = <<>>
    /\ gi = 0
    /\ namespace = ""
    /\ add_branch = FALSE
    /\ targets_relative_dir = FALSE
    /\ custom_data = {}
    /\ descriptors = InitialDescriptors
    /\ repositories = <<>>
    /\ repositories_json = NoFile

\* create_repository(repo_path, keystore, roles_key_infos, commit, test) on a
\* freshly created tuf repository: no role has a key yet.
InitCreate ==
    /\ op = "create"
    /\ pc = "cr_start"
    /\ keystore \in BOOLEAN
    /\ rolesSeq \in Orderings(ConfigRoles) \ {<<>>}
    /\ yubikey \in [RoleNames -> BOOLEAN]
    /\ \A r \in RoleNames : (\A i \in 1..Len(rolesSeq) : rolesSeq[i] # r) => ~yubikey[r]
    /\ vkeys = [r \in RoleNames |-> {}]
    /\ threshold = [r \in RoleNames |-> 1]
    /\ role = NoRole
    /\ rootOld = {}
    /\ keys_num = 0
    /\ InitSingle
    /\ InitCommon
    /\ InitNoScan

\* create_repository with roles_key_infos empty or None: the roles are asked for.
InitCreateInteractive ==
    /\ op = "create"
    /\ pc = "cr_roles"
    /\ keystore \in BOOLEAN
    /\ rolesSeq = <<>>
    /\ yubikey = [r \in RoleNames |-> FALSE]
    /\ vkeys = [r \in RoleNames |-> {}]
    /\ threshold = [r \in RoleNames |-> 1]
    /\ role = NoRole
    /\ rootOld = {}
    /\ keys_num = 0
    /\ InitSingle
    /\ InitCommon
    /\ InitNoScan

\* ------------------------------------------------------------------ create_repository
\* Lines 441-442: the roles _enter_roles_infos always asks for, in this order.
MandatoryRoles == <<"root", "targets", "snapshot", "timestamp">>
\* The roles whose number of keys may be left empty at the prompt.
MayLeaveEmpty == {"root", "timestamp"}

\* Lines 343-345 and 414-450: roles_key_infos is empty and _enter_roles_infos asks for
\* number, length, threshold, yubikey and scheme of the mandatory roles and of the
\* delegated roles the user adds.  _read_val returns the empty string for an empty
\* line and the string is stored under the key, so that key_info.get(key, default)
\* finds it.
CreateEnterRolesInfos ==
    /\ op = "create" /\ pc = "cr_roles"
    /\ roles_entered' = TRUE
    /\ \E add_delegated \in BOOLEAN :
         rolesSeq' = MandatoryRoles \o (IF add_delegated THEN <<"delegated">> ELSE <<>>)
    /\ \E on_yubikey \in BOOLEAN : yubikey' = [yubikey EXCEPT !["root"] = on_yubikey]
    /\ left_empty' \in SUBSET MayLeaveEmpty
    /\ pc' = "cr_start"
    /\ UNCHANGED <<sessionVars, cmdVars, roundLog, acquired, targets_dir, scanVars,
                   createHist, targetVars, loopLog, op, outcome, keystore, roleVars, number,
                   pass, idx, key_num, use_existing, regDone, histVars, loadVars, diskVars>>

\* Lines 419-421, 434, 446-447: input() or click.confirm raises in _enter_roles_infos.
CreateEnterRolesAborts ==
    /\ op = "create" /\ pc = "cr_roles"
    /\ roles_entered' = TRUE
    /\ Finish("aborted")
    /\ UNCHANGED <<sessionVars, cmdVars, roundLog, left_empty, acquired, targets_dir,
                   scanVars, createHist, targetVars, loopLog, op, keystore, roleVars,
                   createVars, histVars, loadVars, diskVars>>

\* The numbers of keys and thresholds of a role: those the bounds allow for a
\* roles_key_infos passed by the caller, 1 for the roles entered at the prompts and
\* for those of init_repo.
KeyNumbers == IF roles_entered \/ caller = "init_repo" THEN {1} ELSE 1..MaxKeys

\* A check for an existing repository that is made after the keys were registered.
CreateExistsChecksLate ==
    /\ op = "create" /\ pc = "cr_loop"
    /\ idx > Len(rolesSeq)
    /\ pass = 2
    /\ Finish("exists")
    /\ UNCHANGED <<sessionVars, cmdVars, promptVars, acquired, targets_dir, scanVars,
                   createHist, targetVars, loopLog, op, keystore, roleVars, createVars,
                   histVars, loadVars, diskVars>>

\* Lines 347-354: return if the path already hosts a git repository, else
\* create_new_repository.
CreateExists ==
    /\ op = "create" /\ pc = "cr_start"
    /\ Finish("exists")
    /\ UNCHANGED <<sessionVars, cmdVars, promptVars, acquired, targets_dir, scanVars,
                   createHist, targetVars, loopLog, op, keystore, roleVars, createVars,
                   histVars, loadVars, diskVars>>

CreateNew ==
    /\ op = "create" /\ pc = "cr_start"
    /\ pc' = "cr_loop"
    /\ repoCreated' = TRUE
    /\ UNCHANGED <<sessionVars, cmdVars, promptVars, acquired, targets_dir, scanVars,
                   declinedGenerate, curKeyWritten, targetVars, loopLog, op, outcome,
                   keystore, roleVars, createVars, histVars, loadVars, diskVars>>

\* Lines 385-391: one iteration of a for loop over roles_key_infos.items() whose
\* role is not of this pass.
CreateSkipRole ==
    /\ op = "create" /\ pc = "cr_loop"
    /\ idx <= Len(rolesSeq)
    /\ ~InPass(pass, CurRole)
    /\ idx' = idx + 1
    /\ UNCHANGED <<sessionVars, cmdVars, promptVars, acquired, targets_dir, scanVars,
                   createHist, targetVars, loopLog, op, pc, outcome, keystore, roleVars,
                   rolesSeq, yubikey, number, pass, key_num, use_existing, regDone,
                   histVars, loadVars, diskVars>>

\* Lines 356-364: _register_roles_keys reads number and threshold of the role and
\* assigns role_obj.threshold; role_obj is None for a role _role_obj does not know.
\* A number of keys that is the empty string makes range(num_of_keys) raise TypeError.
CreateEnterRole ==
    /\ op = "create" /\ pc = "cr_loop"
    /\ idx <= Len(rolesSeq)
    /\ InPass(pass, CurRole)
    /\ \E n \in KeyNumbers, t \in KeyNumbers :
         IF RoleObjIsNone(CurRole)
         THEN /\ number' = [number EXCEPT ![CurRole] = n]
              /\ Finish("attribute_error")
              /\ UNCHANGED <<threshold, key_num>>
         ELSE IF CurRole \in left_empty
         THEN /\ threshold' = [threshold EXCEPT ![CurRole] = t]
              /\ Finish("type_error")
              /\ UNCHANGED <<number, key_num>>
         ELSE /\ number' = [number EXCEPT ![CurRole] = n]
              /\ threshold' = [threshold EXCEPT ![CurRole] = t]
              /\ key_num' = 0
              /\ pc' = "cr_key"
              /\ UNCHANGED outcome
    /\ UNCHANGED <<sessionVars, cmdVars, promptVars, acquired, targets_dir, scanVars,
                   createHist, targetVars, loopLog, op, keystore, vkeys, skeys, providers,
                   rolesSeq, yubikey, pass, idx, use_existing, regDone, histVars, loadVars,
                   diskVars>>

\* Line 364: the for loop over range(num_of_keys) is exhausted.
CreateRoleDone ==
    /\ op = "create" /\ pc = "cr_key"
    /\ key_num = number[CurRole]
    /\ regDone' = regDone \cup {CurRole}
    /\ idx' = idx + 1
    /\ pc' = "cr_loop"
    /\ UNCHANGED <<sessionVars, cmdVars, promptVars, acquired, targets_dir, scanVars,
                   createHist, targetVars, loopLog, op, outcome, keystore, roleVars,
                   rolesSeq, yubikey, number, pass, key_num, use_existing, histVars,
                   loadVars, diskVars>>

\* Lines 364-380: the next key of the role goes to _register_yubikey or _register_key.
CreateNextKey ==
    /\ op = "create" /\ pc = "cr_key"
    /\ key_num < number[CurRole]
    /\ IF yubikey[CurRole]
       THEN /\ pc' = "yk_reuse"
            /\ tokenStarted' = TRUE
       ELSE /\ pc' = "rk_load"
            /\ UNCHANGED tokenStarted
    /\ curKeyWritten' = FALSE
    /\ UNCHANGED <<sessionVars, cmdVars, promptVars, acquired, targets_dir, scanVars,
                   repoCreated, declinedGenerate, targetVars, loopLog, op, outcome,
                   keystore, roleVars, createVars, keystoreFailed, keystoreWritten,
                   tokenPrompted, tokenWiped, loadVars, diskVars>>

\* Lines 316-317: add_verification_key and load_signing_key of the key just obtained.
AddKeystoreKey ==
    /\ vkeys' = [vkeys EXCEPT ![CurRole] = @ \cup {key_num + 1}]
    /\ skeys' = [skeys EXCEPT ![CurRole] = @ \cup {key_num + 1}]
    /\ key_num' = key_num + 1
    /\ pc' = "cr_key"
    /\ UNCHANGED <<sessionVars, cmdVars, promptVars, acquired, targets_dir, threshold,
                   providers>>

\* Lines 291-296: both keystore reads succeed.
RegisterKeyRead ==
    /\ op = "create" /\ pc = "rk_load"
    /\ keystore
    /\ AddKeystoreKey
    /\ UNCHANGED <<sessionVars, cmdVars, promptVars, acquired, targets_dir, scanVars,
                   createHist, targetVars, loopLog, op, outcome, keystore, rolesSeq,
                   yubikey, number, pass, idx, use_existing, regDone, histVars, loadVars,
                   diskVars>>

\* Lines 297-300: a keystore read raises KeystoreError; ask "Generate new keys?".
RegisterKeyReadFails ==
    /\ op = "create" /\ pc = "rk_load"
    /\ keystore
    /\ keystoreFailed' = TRUE
    /\ pc' = "rk_confirm_generate"
    /\ UNCHANGED <<sessionVars, cmdVars, promptVars, acquired, targets_dir, scanVars,
                   createHist, targetVars, loopLog, op, outcome, keystore, roleVars,
                   createVars, keystoreWritten, tokenStarted, tokenPrompted, tokenWiped,
                   loadVars, diskVars>>

\* Line 290: no keystore, generate_new_keys is true from the start.
RegisterKeyNoKeystore ==
    /\ op = "create" /\ pc = "rk_load"
    /\ ~keystore
    /\ pc' = "rk_generate"
    /\ UNCHANGED <<sessionVars, cmdVars, promptVars, acquired, targets_dir, scanVars,
                   createHist, targetVars, loopLog, op, outcome, keystore, roleVars,
                   createVars, histVars, loadVars, diskVars>>

\* Lines 298-303: the user agrees to generate new keys.
ConfirmGenerateYes ==
    /\ op = "create" /\ pc = "rk_confirm_generate"
    /\ pc' = "rk_generate"
    /\ UNCHANGED <<sessionVars, cmdVars, promptVars, acquired, targets_dir, scanVars,
                   createHist, targetVars, loopLog, op, outcome, keystore, roleVars,
                   createVars, histVars, loadVars, diskVars>>

\* A negative answer after which a key is generated all the same.
ConfirmGenerateNoGenerates ==
    /\ op = "create" /\ pc = "rk_confirm_generate"
    /\ declinedGenerate' = TRUE
    /\ pc' = "rk_generate"
    /\ UNCHANGED <<sessionVars, cmdVars, promptVars, acquired, targets_dir, scanVars,
                   repoCreated, curKeyWritten, targetVars, loopLog, op, outcome, keystore,
                   roleVars, createVars, histVars, loadVars, diskVars>>

\* Lines 301-302 and 393-395: the user declines, the KeystoreError is re-raised and
\* create_repository prints "Creation of repository failed" and returns.
ConfirmGenerateNo ==
    /\ op = "create" /\ pc = "rk_confirm_generate"
    /\ Finish("keystore_error")
    /\ declinedGenerate' = TRUE
    /\ UNCHANGED <<sessionVars, cmdVars, promptVars, acquired, targets_dir, scanVars,
                   repoCreated, curKeyWritten, targetVars, loopLog, op, keystore, roleVars,
                   createVars, histVars, loadVars, diskVars>>

\* click.confirm raises (Abort on EOF or interrupt) in _register_key; create_repository
\* catches KeystoreError only.
RegisterKeyConfirmAborts ==
    /\ op = "create"
    /\ \/ pc = "rk_confirm_generate"
       \/ pc = "rk_generate" /\ keystore
    /\ Finish("aborted")
    /\ UNCHANGED <<sessionVars, cmdVars, promptVars, acquired, targets_dir, scanVars,
                   createHist, targetVars, loopLog, op, keystore, roleVars, createVars,
                   histVars, loadVars, diskVars>>

\* Lines 304-311: "Write keys to keystore files?" is answered yes, the pair is written
\* to the keystore and read back.
GenerateAndWrite ==
    /\ op = "create" /\ pc = "rk_generate"
    /\ keystore
    /\ keystoreWritten' = TRUE
    /\ AddKeystoreKey
    /\ curKeyWritten' = TRUE
    /\ UNCHANGED <<sessionVars, cmdVars, promptVars, acquired, targets_dir, scanVars,
                   repoCreated, declinedGenerate, targetVars, loopLog, op, outcome,
                   keystore, rolesSeq, yubikey, number, pass, idx, use_existing, regDone,
                   keystoreFailed, tokenStarted, tokenPrompted, tokenWiped, loadVars,
                   diskVars>>

\* Lines 308-311 and 393-395: reading the written pair back raises KeystoreError
\* outside the try of _register_key.
GenerateAndWriteReadFails ==
    /\ op = "create" /\ pc = "rk_generate"
    /\ keystore
    /\ keystoreWritten' = TRUE
    /\ keystoreFailed' = TRUE
    /\ Finish("keystore_error")
    /\ curKeyWritten' = TRUE
    /\ UNCHANGED <<sessionVars, cmdVars, promptVars, acquired, targets_dir, scanVars,
                   repoCreated, declinedGenerate, targetVars, loopLog, op, keystore,
                   roleVars, createVars, tokenStarted, tokenPrompted, tokenWiped, loadVars,
                   diskVars>>

\* Lines 312-315: no keystore, or the user declines writing: generate_rsa_key.
GenerateInMemory ==
    /\ op = "create" /\ pc = "rk_generate"
    /\ AddKeystoreKey
    /\ UNCHANGED <<sessionVars, cmdVars, promptVars, acquired, targets_dir, scanVars,
                   createHist, targetVars, loopLog, op, outcome, keystore, rolesSeq,
                   yubikey, number, pass, idx, use_existing, regDone, histVars, loadVars,
                   diskVars>>

\* Line 254: "Do you want to reuse already set up Yubikey?"
YubikeyReuse ==
    /\ op = "create" /\ pc = "yk_reuse"
    /\ \E answer \in BOOLEAN :
         /\ use_existing' = answer
         /\ roundLog' = <<IF answer THEN "reuse" ELSE "no reuse">>
         /\ pc' = IF answer THEN "yk_prompt" ELSE "yk_warn"
    /\ UNCHANGED <<sessionVars, cmdVars, roles_entered, left_empty, acquired, targets_dir,
                   scanVars, createHist, targetVars, loopLog, op, outcome, keystore,
                   roleVars, rolesSeq, yubikey, number, pass, idx, key_num, regDone,
                   histVars, loadVars, diskVars>>

\* A warning whose negative answer does not end the round.
YubikeyWarningDeclinedGoesOn ==
    /\ op = "create" /\ pc = "yk_warn"
    /\ \E answer \in BOOLEAN :
         /\ roundLog' = Append(roundLog, IF answer THEN "confirmed" ELSE "declined")
         /\ pc' = "yk_prompt"
    /\ UNCHANGED <<sessionVars, cmdVars, roles_entered, left_empty, acquired, targets_dir,
                   scanVars, createHist, targetVars, loopLog, op, outcome, keystore,
                   roleVars, createVars, histVars, loadVars, diskVars>>

\* Lines 257-260: the warning; a negative answer restarts the while loop.
YubikeyWarning ==
    /\ op = "create" /\ pc = "yk_warn"
    /\ \E answer \in BOOLEAN :
         /\ roundLog' = Append(roundLog, IF answer THEN "confirmed" ELSE "declined")
         /\ pc' = IF answer THEN "yk_prompt" ELSE "yk_reuse"
    /\ UNCHANGED <<sessionVars, cmdVars, roles_entered, left_empty, acquired, targets_dir,
                   scanVars, createHist, targetVars, loopLog, op, outcome, keystore,
                   roleVars, createVars, histVars, loadVars, diskVars>>

\* click.confirm raises in _register_yubikey.
YubikeyConfirmAborts ==
    /\ op = "create" /\ pc \in {"yk_reuse", "yk_warn"}
    /\ Finish("aborted")
    /\ UNCHANGED <<sessionVars, cmdVars, promptVars, acquired, targets_dir, scanVars,
                   createHist, targetVars, loopLog, op, keystore, roleVars, createVars,
                   histVars, loadVars, diskVars>>

\* Lines 262-283: yubikey_prompt returns; a token that is not reused is set up anew
\* (yk.setup_new_yubikey);
\* the key becomes a verification key with an external signature provider.
YubikeyRegister ==
    /\ op = "create" /\ pc = "yk_prompt"
    /\ tokenPrompted' = TRUE
    /\ tokenWiped' = (tokenWiped \/ ~use_existing)
    /\ vkeys' = [vkeys EXCEPT ![CurRole] = @ \cup {key_num + 1}]
    /\ providers' = [providers EXCEPT ![CurRole] = @ \cup {key_num + 1}]
    /\ key_num' = key_num + 1
    /\ pc' = "cr_key"
    /\ roundLog' = roundLog \o (IF use_existing THEN <<"prompt">> ELSE <<"prompt", "setup">>)
    /\ UNCHANGED <<sessionVars, cmdVars, roles_entered, left_empty, acquired, targets_dir,
                   scanVars, createHist, targetVars, loopLog, op, outcome, keystore,
                   threshold, skeys, rolesSeq, yubikey, number, pass, idx, use_existing,
                   regDone, keystoreFailed, keystoreWritten, tokenStarted, loadVars,
                   diskVars>>

\* Lines 262-271: yubikey_prompt raises (PIN entry aborted, token error).
YubikeyPromptFails ==
    /\ op = "create" /\ pc = "yk_prompt"
    /\ tokenPrompted' = TRUE
    /\ Finish("token_error")
    /\ roundLog' = Append(roundLog, "prompt")
    /\ UNCHANGED <<sessionVars, cmdVars, roles_entered, left_empty, acquired, targets_dir,
                   scanVars, createHist, targetVars, loopLog, op, keystore, roleVars,
                   createVars, keystoreFailed, keystoreWritten, tokenStarted, tokenWiped,
                   loadVars, diskVars>>

\* Lines 385-389: the first for loop is exhausted, the second begins.
CreateSecondPass ==
    /\ op = "create" /\ pc = "cr_loop"
    /\ idx > Len(rolesSeq)
    /\ pass = 1
    /\ pass' = 2
    /\ idx' = 1
    /\ UNCHANGED <<sessionVars, cmdVars, promptVars, acquired, targets_dir, scanVars,
                   createHist, targetVars, loopLog, op, pc, outcome, keystore, roleVars,
                   rolesSeq, yubikey, number, key_num, use_existing, regDone, histVars,
                   loadVars, diskVars>>

\* Lines 397-405: both loops are done; the test target is added if asked for and
\* repository.writeall() writes the metadata.
CreateWriteall ==
    /\ op = "create" /\ pc = "cr_loop"
    /\ idx > Len(rolesSeq)
    /\ pass = 2
    /\ written' = written + 1
    /\ pc' = "cr_commit"
    /\ UNCHANGED <<sessionVars, cmdVars, promptVars, acquired, targets_dir, scanVars,
                   createHist, targetVars, loopLog, op, outcome, keystore, roleVars,
                   createVars, histVars, loadVars, committed, updated, fileWrites,
                   expiration>>

\* Lines 407-411: without commit the call returns; with commit the message is read
\* with input() and the repository committed.
CreateReturn ==
    /\ op = "create" /\ pc = "cr_commit"
    /\ \E commit \in BOOLEAN : committed' = commit
    /\ Finish("ok")
    /\ UNCHANGED <<sessionVars, cmdVars, promptVars, acquired, targets_dir, scanVars,
                   createHist, targetVars, loopLog, op, keystore, roleVars, createVars,
                   histVars, loadVars, written, updated, fileWrites, expiration>>

\* Line 410: input() of the commit message raises.
CreateCommitMessageFails ==
    /\ op = "create" /\ pc = "cr_commit"
    /\ Finish("commit_message_error")
    /\ UNCHANGED <<sessionVars, cmdVars, promptVars, acquired, targets_dir, scanVars,
                   createHist, targetVars, loopLog, op, keystore, roleVars, createVars,
                   histVars, loadVars, diskVars>>

NextCreate ==
    \/ CreateEnterRolesInfos
    \/ CreateEnterRolesAborts
    \/ CreateExists
    \/ CreateNew
    \/ CreateSkipRole
    \/ CreateEnterRole
    \/ CreateRoleDone
    \/ CreateNextKey
    \/ RegisterKeyRead
    \/ RegisterKeyReadFails
    \/ RegisterKeyNoKeystore
    \/ ConfirmGenerateYes
    \/ ConfirmGenerateNo
    \/ RegisterKeyConfirmAborts
    \/ GenerateAndWrite
    \/ GenerateAndWriteReadFails
    \/ GenerateInMemory
    \/ YubikeyReuse
    \/ YubikeyWarning
    \/ YubikeyConfirmAborts
    \/ YubikeyRegister
    \/ YubikeyPromptFails
    \/ CreateSecondPass
    \/ CreateWriteall
    \/ CreateReturn
    \/ CreateCommitMessageFails

\* ------------------------------------------------------------------ add_signing_key
\* A repository read from disk: every role has between 1 and MaxKeys verification keys
\* (slots 1..n) and a threshold its keys can meet; only the roles in `free` vary.
ValidRepo(free) ==
    /\ vkeys \in [RoleNames -> {1..n : n \in 1..MaxKeys}]
    /\ threshold \in [RoleNames -> 1..MaxKeys]
    /\ \A r \in RoleNames : threshold[r] <= Cardinality(vkeys[r])
    /\ \A r \in RoleNames \ free : vkeys[r] = {1} /\ threshold[r] = 1

\* add_signing_key(repo_path, role, pub_key_path, scheme) on an existing repository.
InitAddKey ==
    /\ op = "add_key"
    /\ pc = "ak_start"
    /\ keystore = FALSE
    /\ rolesSeq = <<>>
    /\ yubikey = [r \in RoleNames |-> FALSE]
    /\ role \in RoleNames
    /\ ValidRepo({"root"})
    /\ rootOld = vkeys["root"]
    /\ keys_num = 0
    /\ caller = "none"
    /\ other = "idle"
    /\ format_output = FALSE
    /\ InitCommon
    /\ InitNoScan

\* A loop that counts the key loaded before the loop towards the threshold.
ThresholdReachedCountingFirst(n, t) == n + 1 >= t
\* Line 82 (and 142): the loop asks whether to load more once the threshold is reached.
ThresholdReached(n, t) == n >= t

\* Keys of role r a token can still be loaded for: yubikey_prompt accepts a token only
\* if its key is a key of the role and was not loaded for that role before.
Loadable(r) == {k \in vkeys[r] : <<r, k>> \notin loaded_yubikeys}

\* Lines 56-69: the public key is read or prompted for, add_metadata_key adds it (key 0)
\* to the role in memory, then threshold and keys_num of root are read.
AddMetadataKey ==
    /\ op = "add_key" /\ pc = "ak_start"
    /\ vkeys' = [vkeys EXCEPT ![role] = @ \cup {0}]
    /\ keys_num' = Cardinality(vkeys'["root"])
    /\ num_of_signatures' = 0
    /\ pc' = "ak_role_prompt"
    /\ UNCHANGED <<sessionVars, cmdVars, promptVars, acquired, targets_dir, scanVars,
                   createHist, targetVars, loopLog, op, outcome, keystore, threshold, skeys,
                   providers, createVars, histVars, role, rootOld, all_loaded,
                   loaded_yubikeys, keys, ks_idx, is_yubikey, phase, loadedKeys, diskVars>>

\* Line 64: new_public_key_cmd_prompt raises.
AddKeyPublicKeyPromptFails ==
    /\ op = "add_key" /\ pc = "ak_start"
    /\ Finish("aborted")
    /\ UNCHANGED <<sessionVars, cmdVars, promptVars, acquired, targets_dir, scanVars,
                   createHist, targetVars, loopLog, op, keystore, roleVars, createVars,
                   histVars, loadVars, diskVars>>

\* Lines 72-78: yubikey_prompt for the role's key; its provider is registered on the
\* role object, which is None for a role _role_obj does not know.
AddKeyRolePrompt ==
    /\ op = "add_key" /\ pc = "ak_role_prompt"
    /\ \E k \in Loadable(role) :
         /\ loaded_yubikeys' = loaded_yubikeys \cup {<<role, k>>}
         /\ tokenPrompted' = TRUE
         /\ IF RoleObjIsNone(role)
            THEN /\ Finish("attribute_error")
                 /\ UNCHANGED <<providers, all_loaded>>
            ELSE /\ providers' = [providers EXCEPT ![role] = @ \cup {k}]
                 /\ all_loaded' = FALSE
                 /\ pc' = "ak_loop"
                 /\ UNCHANGED outcome
    /\ UNCHANGED <<sessionVars, cmdVars, promptVars, acquired, targets_dir, scanVars,
                   createHist, targetVars, loopLog, op, keystore, threshold, vkeys, skeys,
                   createVars, keystoreFailed, keystoreWritten, tokenStarted, tokenWiped,
                   role, rootOld, keys_num, num_of_signatures, keys, ks_idx, is_yubikey,
                   phase, loadedKeys, diskVars>>

\* Lines 82-87 and 97-98: the threshold is reached and the user is asked whether to load
\* more root keys.
AddKeyConfirmMore ==
    /\ op = "add_key" /\ pc = "ak_loop"
    /\ ~all_loaded
    /\ ThresholdReached(num_of_signatures, threshold["root"])
    /\ \E more \in BOOLEAN :
         IF more
         THEN /\ pc' = "ak_prompt"
              /\ loopLog' = Append(loopLog, "more")
              /\ UNCHANGED all_loaded
         ELSE /\ all_loaded' = TRUE
              /\ loopLog' = Append(loopLog, "stop")
              /\ UNCHANGED pc
    /\ UNCHANGED <<sessionVars, cmdVars, promptVars, acquired, targets_dir, scanVars,
                   createHist, targetVars, op, outcome, keystore, roleVars, createVars,
                   histVars, role, rootOld, keys_num, num_of_signatures, loaded_yubikeys,
                   keys, ks_idx, is_yubikey, phase, loadedKeys, diskVars>>

\* Line 84: click.confirm raises.
AddKeyConfirmAborts ==
    /\ op = "add_key" /\ pc = "ak_loop"
    /\ ~all_loaded
    /\ ThresholdReached(num_of_signatures, threshold["root"])
    /\ Finish("aborted")
    /\ UNCHANGED <<sessionVars, cmdVars, promptVars, acquired, targets_dir, scanVars,
                   createHist, targetVars, loopLog, op, keystore, roleVars, createVars,
                   histVars, loadVars, diskVars>>

\* The loop body is at line 88 with all_loaded false.
AtRootPrompt ==
    \/ pc = "ak_prompt"
    \/ /\ pc = "ak_loop"
       /\ ~all_loaded
       /\ ~ThresholdReached(num_of_signatures, threshold["root"])

\* Lines 88-98: yubikey_prompt for the next root key, its provider is registered on root.
AddKeyRootPrompt ==
    /\ op = "add_key" /\ AtRootPrompt
    /\ \E k \in Loadable("root") :
         /\ loaded_yubikeys' = loaded_yubikeys \cup {<<"root", k>>}
         /\ providers' = [providers EXCEPT !["root"] = @ \cup {k}]
    /\ tokenPrompted' = TRUE
    /\ num_of_signatures' = num_of_signatures + 1
    /\ all_loaded' = (num_of_signatures' = keys_num)
    /\ pc' = "ak_loop"
    /\ loopLog' = Append(loopLog, "token")
    /\ UNCHANGED <<sessionVars, cmdVars, promptVars, acquired, targets_dir, scanVars,
                   createHist, targetVars, op, outcome, keystore, threshold, vkeys, skeys,
                   createVars, keystoreFailed, keystoreWritten, tokenStarted, tokenWiped,
                   role, rootOld, keys_num, keys, ks_idx, is_yubikey, phase, loadedKeys,
                   diskVars>>

\* A failing prompt that is swallowed and ends the loop instead of propagating.
AddKeyPromptSwallowed ==
    /\ op = "add_key"
    /\ pc = "ak_role_prompt" \/ AtRootPrompt
    /\ tokenPrompted' = TRUE
    /\ all_loaded' = TRUE
    /\ pc' = "ak_loop"
    /\ UNCHANGED <<sessionVars, cmdVars, promptVars, acquired, targets_dir, scanVars,
                   createHist, targetVars, loopLog, op, outcome, keystore, roleVars,
                   createVars, keystoreFailed, keystoreWritten, tokenStarted, tokenWiped,
                   role, rootOld, keys_num, num_of_signatures, loaded_yubikeys, keys,
                   ks_idx, is_yubikey, phase, loadedKeys, diskVars>>

\* Lines 72 and 90: yubikey_prompt raises; add_signing_key catches nothing.
AddKeyPromptFails ==
    /\ op = "add_key"
    /\ pc = "ak_role_prompt" \/ AtRootPrompt
    /\ tokenPrompted' = TRUE
    /\ Finish("token_error")
    /\ UNCHANGED <<sessionVars, cmdVars, promptVars, acquired, targets_dir, scanVars,
                   createHist, targetVars, loopLog, op, keystore, roleVars, createVars,
                   keystoreFailed, keystoreWritten, tokenStarted, tokenWiped, loadVars,
                   diskVars>>

\* Line 99: the loop has ended, taf_repo.writeall().
AddKeyWriteall ==
    /\ op = "add_key" /\ pc = "ak_loop"
    /\ all_loaded
    /\ written' = written + 1
    /\ Finish("ok")
    /\ UNCHANGED <<sessionVars, cmdVars, promptVars, acquired, targets_dir, scanVars,
                   createHist, targetVars, loopLog, op, keystore, roleVars, createVars,
                   histVars, loadVars, committed, updated, fileWrites, expiration>>

\* A second session calls add_signing_key on the same repository.  Lines 47-66: the
\* function loads the repository and goes on; nothing in it, or in any other operation,
\* tests or takes a lock, so the call is enabled whatever the first session is doing.
OtherSessionEnters ==
    /\ op = "add_key" /\ other = "idle"
    /\ other' = "inside"
    /\ UNCHANGED <<caller, stepsLog, cmdVars, promptVars, acquired, targets_dir, scanVars,
                   createHist, targetVars, loopLog, op, pc, outcome, keystore, roleVars,
                   createVars, histVars, loadVars, diskVars>>

\* Line 99: the second session's writeall() writes the metadata.
OtherSessionWriteall ==
    /\ op = "add_key" /\ other = "inside"
    /\ other' = "written"
    /\ UNCHANGED <<caller, stepsLog, cmdVars, promptVars, acquired, targets_dir, scanVars,
                   createHist, targetVars, loopLog, op, pc, outcome, keystore, roleVars,
                   createVars, histVars, loadVars, diskVars>>

\* The second session's call returns.
OtherSessionReturns ==
    /\ op = "add_key" /\ other = "written"
    /\ other' = "done"
    /\ UNCHANGED <<caller, stepsLog, cmdVars, promptVars, acquired, targets_dir, scanVars,
                   createHist, targetVars, loopLog, op, pc, outcome, keystore, roleVars,
                   createVars, histVars, loadVars, diskVars>>

NextAddKey ==
    \/ OtherSessionEnters
    \/ OtherSessionWriteall
    \/ OtherSessionReturns
    \/ AddMetadataKey
    \/ AddKeyPublicKeyPromptFails
    \/ AddKeyRolePrompt
    \/ AddKeyConfirmMore
    \/ AddKeyConfirmAborts
    \/ AddKeyRootPrompt
    \/ AddKeyPromptFails
    \/ AddKeyWriteall

\* ------------------------------------------------------------------ _load_signing_keys
\* Lines 816-832 and 784-790: _write_targets_metadata passes loaded_yubikeys for the
\* targets role only; update_metadata_expiration_date always passes it.
DictPassed == op = "expiry" \/ phase = "targets"

\* Lines 138-141: the name of the key the loop asks for, 0 standing for the bare role
\* name and i for role + str(i).
KeyName == IF keys_num = 1 THEN 0 ELSE num_of_signatures + 1

\* What role_key_infos[role].get("yubikey") may be: anything for a roles_key_infos of
\* the caller's, absent or false for the one init_repo has passed to create_repository.
RoleYkInfos == IF caller = "init_repo" THEN {"false", "none"} ELSE YkInfo

\* Lines 115-120: the call begins; threshold and signing_keys_num are read from the
\* repository, info is role_key_infos[role].get("yubikey") or None.
LoadBegin(r, info) ==
    /\ role' = r
    /\ keys_num' = Cardinality(vkeys[r])
    /\ all_loaded' = FALSE
    /\ num_of_signatures' = 0
    /\ keys' = <<>>
    /\ ks_idx' = 0
    /\ is_yubikey' = info
    /\ loopLog' = <<>>
    /\ pc' = IF keystore THEN "ls_keystore" ELSE "ls_loop"

\* Lines 127-130: key_names is [role, role1, ..., roleN], N = signing_keys_num; the for
\* loop is at key_names[ks_idx].
InKeystoreLoop == pc = "ls_keystore" /\ ks_idx <= keys_num

\* Line 137: the while condition is about to be evaluated.
AtLoopHead == pc = "ls_loop" \/ (pc = "ls_keystore" /\ ks_idx > keys_num)

\* Line 130: keystore / key_name is not a file.
LoadKeystoreMissing ==
    /\ op \in {"register", "expiry"} /\ InKeystoreLoop
    /\ ks_idx' = ks_idx + 1
    /\ UNCHANGED <<sessionVars, cmdVars, promptVars, acquired, targets_dir, scanVars,
                   createHist, targetVars, loopLog, op, pc, outcome, keystore, roleVars,
                   createVars, histVars, role, rootOld, keys_num, num_of_signatures,
                   all_loaded, loaded_yubikeys, keys, is_yubikey, phase, loadedKeys,
                   diskVars>>

\* Lines 130-135: the file exists and read_private_key_from_keystore returns the key.
LoadKeystoreRead ==
    /\ op \in {"register", "expiry"} /\ InKeystoreLoop
    /\ keys' = Append(keys, ks_idx)
    /\ num_of_signatures' = num_of_signatures + 1
    /\ ks_idx' = ks_idx + 1
    /\ loopLog' = Append(loopLog, "file")
    /\ acquired' = [acquired EXCEPT ![role] = @ + 1]
    /\ UNCHANGED <<sessionVars, cmdVars, promptVars, targets_dir, scanVars, createHist,
                   targetVars, op, pc, outcome, keystore, roleVars, createVars, histVars,
                   role, rootOld, keys_num, all_loaded, loaded_yubikeys, is_yubikey, phase,
                   loadedKeys, diskVars>>

\* Lines 131-133: read_private_key_from_keystore raises KeystoreError, which no caller
\* of _load_signing_keys catches.
LoadKeystoreReadFails ==
    /\ op \in {"register", "expiry"} /\ InKeystoreLoop
    /\ keystoreFailed' = TRUE
    /\ Finish("keystore_error")
    /\ UNCHANGED <<sessionVars, cmdVars, promptVars, acquired, targets_dir, scanVars,
                   createHist, targetVars, loopLog, op, keystore, roleVars, createVars,
                   keystoreWritten, tokenStarted, tokenPrompted, tokenWiped, loadVars,
                   diskVars>>

\* Lines 142-147 and 161: the threshold is reached and the user is asked whether to load
\* more keys; after a negative answer num_of_signatures is still incremented.
LoadConfirmMore ==
    /\ op \in {"register", "expiry"} /\ AtLoopHead
    /\ ~all_loaded /\ num_of_signatures < keys_num
    /\ ThresholdReached(num_of_signatures, threshold[role])
    /\ \E more \in BOOLEAN :
         IF more
         THEN /\ pc' = "ls_acquire"
              /\ loopLog' = Append(loopLog, "more")
              /\ UNCHANGED <<all_loaded, num_of_signatures>>
         ELSE /\ all_loaded' = TRUE
              /\ loopLog' = Append(loopLog, "stop")
              /\ num_of_signatures' = num_of_signatures + 1
              /\ pc' = "ls_loop"
    /\ UNCHANGED <<sessionVars, cmdVars, promptVars, acquired, targets_dir, scanVars,
                   createHist, targetVars, op, outcome, keystore, roleVars, createVars,
                   histVars, role, rootOld, keys_num, loaded_yubikeys, keys, ks_idx,
                   is_yubikey, phase, loadedKeys, diskVars>>

\* Line 148 with all_loaded false: a key is to be acquired.
AtAcquire ==
    \/ pc = "ls_acquire"
    \/ /\ AtLoopHead
       /\ ~all_loaded /\ num_of_signatures < keys_num
       /\ ~ThresholdReached(num_of_signatures, threshold[role])

\* Lines 149-153: is_yubikey comes from role_key_infos, or from the answer to
\* "Sign {role} using YubiKey(s)?" when role_key_infos does not say.
IsYubikeyAnswers == IF is_yubikey = "none" THEN BOOLEAN ELSE {is_yubikey = "true"}

\* A token prompt after which the files of the keystore are gone through again.
LoadYubikeyPromptThenScan ==
    /\ op \in {"register", "expiry"} /\ AtAcquire
    /\ TRUE \in IsYubikeyAnswers
    /\ tokenPrompted' = TRUE
    /\ loaded_yubikeys' = IF DictPassed THEN loaded_yubikeys \cup {<<role, KeyName>>}
                          ELSE loaded_yubikeys
    /\ num_of_signatures' = num_of_signatures + 1
    /\ loopLog' = Append(loopLog, "token")
    /\ ks_idx' = 0
    /\ pc' = IF keystore THEN "ls_keystore" ELSE "ls_loop"
    /\ acquired' = [acquired EXCEPT ![role] = @ + 1]
    /\ UNCHANGED <<sessionVars, cmdVars, promptVars, targets_dir, scanVars, createHist,
                   targetVars, op, outcome, keystore, roleVars, createVars, keystoreFailed,
                   keystoreWritten, tokenStarted, tokenWiped, role, rootOld, keys_num,
                   all_loaded, keys, is_yubikey, phase, loadedKeys, diskVars>>

\* Lines 154-157 and 161: yubikey_prompt returns; the token is recorded in
\* loaded_yubikeys if the caller passed one; nothing is appended to keys.
LoadYubikeyPrompt ==
    /\ op \in {"register", "expiry"} /\ AtAcquire
    /\ TRUE \in IsYubikeyAnswers
    /\ tokenPrompted' = TRUE
    /\ loaded_yubikeys' = IF DictPassed THEN loaded_yubikeys \cup {<<role, KeyName>>}
                          ELSE loaded_yubikeys
    /\ num_of_signatures' = num_of_signatures + 1
    /\ pc' = "ls_loop"
    /\ loopLog' = Append(loopLog, "token")
    /\ acquired' = [acquired EXCEPT ![role] = @ + 1]
    /\ UNCHANGED <<sessionVars, cmdVars, promptVars, targets_dir, scanVars, createHist,
                   targetVars, op, outcome, keystore, roleVars, createVars, keystoreFailed,
                   keystoreWritten, tokenStarted, tokenWiped, role, rootOld, keys_num,
                   all_loaded, keys, ks_idx, is_yubikey, phase, loadedKeys, diskVars>>

\* Lines 158-161: key_cmd_prompt returns the key entered by the user, appended to keys.
LoadKeyCmdPrompt ==
    /\ op \in {"register", "expiry"} /\ AtAcquire
    /\ FALSE \in IsYubikeyAnswers
    /\ keys' = Append(keys, KeyName)
    /\ num_of_signatures' = num_of_signatures + 1
    /\ pc' = "ls_loop"
    /\ loopLog' = Append(loopLog, "cmd")
    /\ acquired' = [acquired EXCEPT ![role] = @ + 1]
    /\ UNCHANGED <<sessionVars, cmdVars, promptVars, targets_dir, scanVars, createHist,
                   targetVars, op, outcome, keystore, roleVars, createVars, histVars, role,
                   rootOld, keys_num, all_loaded, loaded_yubikeys, ks_idx, is_yubikey,
                   phase, loadedKeys, diskVars>>

\* Lines 143, 153, 159: a click.confirm or key_cmd_prompt raises.
LoadPromptAborts ==
    /\ op \in {"register", "expiry"}
    /\ \/ AtAcquire /\ is_yubikey # "true"
       \/ /\ AtLoopHead
          /\ ~all_loaded /\ num_of_signatures < keys_num
          /\ ThresholdReached(num_of_signatures, threshold[role])
    /\ Finish("aborted")
    /\ UNCHANGED <<sessionVars, cmdVars, promptVars, acquired, targets_dir, scanVars,
                   createHist, targetVars, loopLog, op, keystore, roleVars, createVars,
                   histVars, loadVars, diskVars>>

\* Line 155: yubikey_prompt raises.
LoadYubikeyPromptFails ==
    /\ op \in {"register", "expiry"} /\ AtAcquire
    /\ TRUE \in IsYubikeyAnswers
    /\ tokenPrompted' = TRUE
    /\ Finish("token_error")
    /\ UNCHANGED <<sessionVars, cmdVars, promptVars, acquired, targets_dir, scanVars,
                   createHist, targetVars, loopLog, op, keystore, roleVars, createVars,
                   keystoreFailed, keystoreWritten, tokenStarted, tokenWiped, loadVars,
                   diskVars>>

\* Lines 137 and 162: the while loop ends and keys is returned.
LoadReturn ==
    /\ op \in {"register", "expiry"} /\ AtLoopHead
    /\ all_loaded \/ num_of_signatures >= keys_num
    /\ loadedKeys' = [loadedKeys EXCEPT ![role] = keys]
    /\ pc' = "ls_return"
    /\ UNCHANGED <<sessionVars, cmdVars, promptVars, acquired, targets_dir, scanVars,
                   createHist, targetVars, loopLog, op, outcome, keystore, roleVars,
                   createVars, histVars, role, rootOld, keys_num, num_of_signatures,
                   all_loaded, loaded_yubikeys, keys, ks_idx, is_yubikey, phase, diskVars>>

NextLoad ==
    \/ LoadKeystoreMissing
    \/ LoadKeystoreRead
    \/ LoadKeystoreReadFails
    \/ LoadConfirmMore
    \/ LoadYubikeyPrompt
    \/ LoadKeyCmdPrompt
    \/ LoadPromptAborts
    \/ LoadYubikeyPromptFails
    \/ LoadReturn

\* ------------------------------------------------------------------ register_target_files
\* register_target_files(repo_path, keystore, roles_key_infos, commit, scheme) on an
\* existing repository.
InitRegister ==
    /\ op = "register"
    /\ pc = "rt_start"
    /\ keystore \in BOOLEAN
    /\ rolesSeq = <<>>
    /\ yubikey = [r \in RoleNames |-> FALSE]
    /\ role = NoRole
    /\ \E r \in {"targets", "snapshot", "timestamp"} : ValidRepo({r})
    /\ rootOld = {}
    /\ keys_num = 0
    /\ InitSingle
    /\ InitCommon
    /\ InitNoScan

\* The repository at repo_path has metadata: its roles have keys.
HasMetadata == \A r \in SignedRoles : vkeys[r] # {}

\* Lines 692-695: Repository(repo_path) finds no metadata to load, so that the first use
\* of the repository object raises.
RegisterNoRepository ==
    /\ op = "register" /\ pc = "rt_start"
    /\ ~HasMetadata
    /\ Finish("repository_error")
    /\ UNCHANGED <<sessionVars, cmdVars, promptVars, acquired, targets_dir, scanVars,
                   createHist, targetVars, loopLog, op, keystore, roleVars, createVars,
                   histVars, loadVars, diskVars>>

\* Lines 688-696 and 815-818: add_existing_target is called for the files under targets/
\* in the order os.walk enumerates them and _write_targets_metadata starts loading the
\* keys of targets.
RegisterStart ==
    /\ op = "register" /\ pc = "rt_start"
    /\ HasMetadata
    /\ \E w \in WalkOrders(<<"targets">>) : targetsAdded' = w
    /\ UNCHANGED emitted
    /\ phase' = "targets"
    /\ \E info \in RoleYkInfos : LoadBegin("targets", info)
    /\ UNCHANGED <<sessionVars, cmdVars, promptVars, acquired, targets_dir, scanVars,
                   createHist, op, outcome, keystore, roleVars, createVars, histVars,
                   rootOld, loaded_yubikeys, loadedKeys, diskVars>>

\* The update of targets with write=True: targets.json is written at once.
TargetsUpdatedWritten(k, yks) ==
    /\ updated' = IF Len(k) > 0 \/ (\E e \in yks : e[1] = "targets")
                  THEN Append(updated, "targets")
                  ELSE updated
    /\ fileWrites' = IF Len(k) > 0 \/ (\E e \in yks : e[1] = "targets")
                     THEN Append(fileWrites, "targets")
                     ELSE fileWrites
\* Lines 819-826: targets is updated in memory (write=False), with the first keystore
\* key if one was returned, else with the pin of a token loaded for targets.
UpdateTargets(k, yks) ==
    /\ updated' = IF Len(k) > 0 \/ (\E e \in yks : e[1] = "targets")
                  THEN Append(updated, "targets")
                  ELSE updated
    /\ UNCHANGED fileWrites

\* Lines 819-829: after the keys of targets are returned, targets is updated and the
\* keys of snapshot are loaded (no loaded_yubikeys is passed).
RegisterTargetsLoaded ==
    /\ op = "register" /\ pc = "ls_return" /\ phase = "targets"
    /\ UpdateTargets(loadedKeys["targets"], loaded_yubikeys)
    /\ phase' = "snapshot"
    /\ \E info \in RoleYkInfos : LoadBegin("snapshot", info)
    /\ UNCHANGED <<sessionVars, cmdVars, promptVars, acquired, targets_dir, scanVars,
                   createHist, targetVars, op, outcome, keystore, roleVars, createVars,
                   histVars, rootOld, loaded_yubikeys, loadedKeys, written, committed,
                   expiration>>

\* Lines 827-832: the keys of snapshot are returned, those of timestamp are loaded.
RegisterSnapshotLoaded ==
    /\ op = "register" /\ pc = "ls_return" /\ phase = "snapshot"
    /\ phase' = "timestamp"
    /\ \E info \in RoleYkInfos : LoadBegin("timestamp", info)
    /\ UNCHANGED <<sessionVars, cmdVars, promptVars, acquired, targets_dir, scanVars,
                   createHist, targetVars, op, outcome, keystore, roleVars, createVars,
                   histVars, rootOld, loaded_yubikeys, loadedKeys, diskVars>>

\* Lines 833-834: snapshot_keys[0] or timestamp_keys[0] of an empty list raises
\* IndexError.
RegisterNoFirstKey ==
    /\ op = "register" /\ pc = "ls_return" /\ phase = "timestamp"
    /\ Len(loadedKeys["snapshot"]) = 0 \/ Len(loadedKeys["timestamp"]) = 0
    /\ Finish("index_error")
    /\ UNCHANGED <<sessionVars, cmdVars, promptVars, acquired, targets_dir, scanVars,
                   createHist, targetVars, loopLog, op, keystore, roleVars, createVars,
                   histVars, loadVars, diskVars>>

\* Line 835: update_snapshot_and_timestmap(snapshot_key, timestamp_key, write=False)
\* updates snapshot, then timestamp, in memory.
UpdateSnapshotAndTimestamp == updated' = updated \o <<"snapshot", "timestamp">>

\* Lines 833-835: both first keys exist, snapshot and timestamp are updated in memory.
RegisterUpdateSnapshotTimestamp ==
    /\ op = "register" /\ pc = "ls_return" /\ phase = "timestamp"
    /\ Len(loadedKeys["snapshot"]) > 0 /\ Len(loadedKeys["timestamp"]) > 0
    /\ UpdateSnapshotAndTimestamp
    /\ pc' = "rt_writeall"
    /\ UNCHANGED <<sessionVars, cmdVars, promptVars, acquired, targets_dir, scanVars,
                   createHist, targetVars, loopLog, op, outcome, keystore, roleVars,
                   createVars, histVars, loadVars, written, committed, fileWrites,
                   expiration>>

\* Lines 819-826 and 833-835: the keys a role of register_target_files is signed with.
\* Each update method is called once, with the first key of the list
\* _load_signing_keys returned or, for targets without one, with the pin of the first
\* token loaded for targets: one key, however many were loaded.
SigningKeys(r) ==
    IF \A i \in 1..Len(updated) : updated[i] # r THEN {}
    ELSE IF Len(loadedKeys[r]) > 0 THEN {loadedKeys[r][1]}
    ELSE {CHOOSE k \in {e[2] : e \in {y \in loaded_yubikeys : y[1] = r}} : TRUE}

\* Targets entries written in the order of the add_existing_target calls.
EmitTargetsInCallOrder(added) == added
\* The targets entries of the written targets metadata: the registered paths, sorted by
\* path before emission.
EmitTargets(added) ==
    CHOOSE s \in Perms({added[i] : i \in 1..Len(added)}) :
        \A i, j \in 1..Len(s) : i < j => PathLess(s[i], s[j])

\* Line 836: taf_repo.writeall() writes the metadata of the updated roles.
RegisterWriteall ==
    /\ op = "register" /\ pc = "rt_writeall"
    /\ written' = written + 1
    /\ emitted' = EmitTargets(targetsAdded)
    /\ pc' = "rt_commit"
    /\ UNCHANGED <<sessionVars, cmdVars, promptVars, acquired, targets_dir, scanVars,
                   createHist, targetsAdded, loopLog, op, outcome, keystore, roleVars,
                   createVars, histVars, loadVars, committed, updated, fileWrites,
                   expiration>>

\* Lines 697-700: without commit the call returns; with commit the message is read with
\* input() and the repository committed.
RegisterReturn ==
    /\ op = "register" /\ pc = "rt_commit"
    /\ \E commit \in BOOLEAN : committed' = commit
    /\ Finish("ok")
    /\ UNCHANGED <<sessionVars, cmdVars, promptVars, acquired, targets_dir, scanVars,
                   createHist, targetVars, loopLog, op, keystore, roleVars, createVars,
                   histVars, loadVars, written, updated, fileWrites, expiration>>

\* Line 699: input() of the commit message raises.
RegisterCommitMessageFails ==
    /\ op = "register" /\ pc = "rt_commit"
    /\ Finish("commit_message_error")
    /\ UNCHANGED <<sessionVars, cmdVars, promptVars, acquired, targets_dir, scanVars,
                   createHist, targetVars, loopLog, op, keystore, roleVars, createVars,
                   histVars, loadVars, diskVars>>

NextRegister ==
    \/ RegisterNoRepository
    \/ RegisterStart
    \/ RegisterTargetsLoaded
    \/ RegisterSnapshotLoaded
    \/ RegisterNoFirstKey
    \/ RegisterUpdateSnapshotTimestamp
    \/ RegisterWriteall
    \/ RegisterReturn
    \/ RegisterCommitMessageFails

\* ------------------------------------------------------------------ update_metadata_expiration_date
\* update_metadata_expiration_date(repo_path, role, interval, keystore, scheme,
\* start_date, commit) on an existing repository.
InitExpiry ==
    /\ op = "expiry"
    /\ pc = "ex_start"
    /\ keystore \in BOOLEAN
    /\ rolesSeq = <<>>
    /\ yubikey = [r \in RoleNames |-> FALSE]
    /\ role \in RoleNames \ {"delegated"}
    /\ ValidRepo({role})
    /\ rootOld = {}
    /\ keys_num = 0
    /\ InitSingle
    /\ InitCommon
    /\ InitNoScan

\* Roles that depend on r in the chain targets -> snapshot -> timestamp, in order.
Dependents(r) ==
    CASE r = "targets" -> <<"snapshot", "timestamp">>
      [] r = "snapshot" -> <<"timestamp">>
      [] OTHER -> <<>>

\* Lines 777-782: the update methods there are, by f"{role}_keystore" / f"{role}_yubikey".
HasKeystoreMethod(r) == r \in {"timestamp", "snapshot", "targets"}
HasYubikeyMethod(r) == r = "targets"

\* Repository.update_timestamp / update_snapshot / update_targets_from_keystore /
\* update_targets with start_date and interval: the role's expiration becomes
\* start_date + interval and the role and its dependency chain are re-signed and
\* written; an expiration that is not later than the recorded one is refused.
RepositoryUpdate(r, start_date, interval) ==
    IF start_date + interval > expiration[r]
    THEN /\ expiration' = [expiration EXCEPT ![r] = start_date + interval]
         /\ updated' = updated \o <<r>> \o Dependents(r)
         /\ fileWrites' = fileWrites \o <<r>> \o Dependents(r)
         /\ pc' = "ex_updated"
         /\ UNCHANGED outcome
    ELSE /\ Finish("monotonic_violation")
         /\ UNCHANGED <<expiration, updated, fileWrites>>

\* Lines 776-790: the keys of the role are loaded; role_key_infos is not passed.
ExpiryStart ==
    /\ op = "expiry" /\ pc = "ex_start"
    /\ LoadBegin(role, "none")
    /\ UNCHANGED <<sessionVars, cmdVars, promptVars, acquired, targets_dir, scanVars,
                   createHist, targetVars, op, outcome, keystore, roleVars, createVars,
                   histVars, rootOld, loaded_yubikeys, phase, loadedKeys, diskVars>>

\* Lines 791-793: a keystore key was returned and the role has a keystore update method.
ExpiryUpdateFromKeystore ==
    /\ op = "expiry" /\ pc = "ls_return"
    /\ Len(loadedKeys[role]) > 0
    /\ HasKeystoreMethod(role)
    /\ \E start_date \in 0..MaxDate, interval \in 0..MaxDate :
         RepositoryUpdate(role, start_date, interval)
    /\ UNCHANGED <<sessionVars, cmdVars, promptVars, acquired, targets_dir, scanVars,
                   createHist, targetVars, loopLog, op, keystore, roleVars, createVars,
                   histVars, loadVars, written, committed>>

\* Lines 796-804: no keystore key was returned, a token with "targets" among its roles
\* was loaded and the role has a yubikey update method.
ExpiryUpdateFromYubikey ==
    /\ op = "expiry" /\ pc = "ls_return"
    /\ Len(loadedKeys[role]) = 0
    /\ \E e \in loaded_yubikeys : e[1] = "targets"
    /\ HasYubikeyMethod(role)
    /\ \E start_date \in 0..MaxDate, interval \in 0..MaxDate :
         RepositoryUpdate(role, start_date, interval)
    /\ UNCHANGED <<sessionVars, cmdVars, promptVars, acquired, targets_dir, scanVars,
                   createHist, targetVars, loopLog, op, keystore, roleVars, createVars,
                   histVars, loadVars, written, committed>>

\* Lines 794-795, 797-798 and 802-803: the KeyError of a missing update method is
\* caught, or no token with "targets" among its roles was loaded: nothing is updated.
ExpiryNoUpdate ==
    /\ op = "expiry" /\ pc = "ls_return"
    /\ \/ Len(loadedKeys[role]) > 0 /\ ~HasKeystoreMethod(role)
       \/ Len(loadedKeys[role]) = 0 /\ ~(\E e \in loaded_yubikeys : e[1] = "targets")
       \/ Len(loadedKeys[role]) = 0 /\ ~HasYubikeyMethod(role)
    /\ pc' = "ex_updated"
    /\ UNCHANGED <<sessionVars, cmdVars, promptVars, acquired, targets_dir, scanVars,
                   createHist, targetVars, loopLog, op, outcome, keystore, roleVars,
                   createVars, histVars, loadVars, diskVars>>

\* Lines 805-810: "Updated expiration date of {role}" is printed; without commit the
\* call returns, with commit the message is read and the repository committed.
ExpiryReturn ==
    /\ op = "expiry" /\ pc = "ex_updated"
    /\ \E commit \in BOOLEAN : committed' = commit
    /\ Finish("ok")
    /\ UNCHANGED <<sessionVars, cmdVars, promptVars, acquired, targets_dir, scanVars,
                   createHist, targetVars, loopLog, op, keystore, roleVars, createVars,
                   histVars, loadVars, written, updated, fileWrites, expiration>>

\* Line 809: input() of the commit message raises.
ExpiryCommitMessageFails ==
    /\ op = "expiry" /\ pc = "ex_updated"
    /\ Finish("commit_message_error")
    /\ UNCHANGED <<sessionVars, cmdVars, promptVars, acquired, targets_dir, scanVars,
                   createHist, targetVars, loopLog, op, keystore, roleVars, createVars,
                   histVars, loadVars, diskVars>>

NextExpiry ==
    \/ ExpiryStart
    \/ ExpiryUpdateFromKeystore
    \/ ExpiryUpdateFromYubikey
    \/ ExpiryNoUpdate
    \/ ExpiryReturn
    \/ ExpiryCommitMessageFails

\* ------------------------------------------------------------------ scans of root_dir/namespace
\* The operation calls none of the key handling code.
InitNoKeys ==
    /\ keystore = FALSE
    /\ rolesSeq = <<>>
    /\ yubikey = [r \in RoleNames |-> FALSE]
    /\ vkeys = [r \in RoleNames |-> {1}]
    /\ threshold = [r \in RoleNames |-> 1]
    /\ role = NoRole
    /\ rootOld = {}
    /\ keys_num = 0
    /\ InitCommon

\* What the file system says of an entry of root_dir/namespace.
IsDir(e) == e # "f"
IsAuthRepo(e) == e = "auth"
IsGitRepository(e) == e \in {"auth", "a", "b"}
HeadCommitSha(e) == <<"sha", e>>
CurrentBranch(e) == <<"branch", e>>
NoRemote == <<"no remote">>
RemoteUrl(e) == IF e \in {"a", "auth"} THEN <<"remote", e>> ELSE NoRemote

\* dict[key] = value on a dict kept as the sequence of its items in insertion order.
DictSet(dict, key, value) ==
    IF \E i \in 1..Len(dict) : dict[i][1] = key
    THEN [i \in 1..Len(dict) |-> IF dict[i][1] = key THEN <<key, value>> ELSE dict[i]]
    ELSE Append(dict, <<key, value>>)
DictKeys(dict) == {dict[i][1] : i \in 1..Len(dict)}
DictGet(dict, key) == dict[CHOOSE i \in 1..Len(dict) : dict[i][1] = key][2]

\* update_target_repos_from_fs(repo_path, root_dir, namespace, add_branch).
InitUpdateTargetRepos ==
    /\ op = "update_target_repos"
    /\ pc = "ut_loop"
    /\ glob \in Perms(EntryNames)
    /\ gi = 1
    /\ namespace \in Namespaces
    /\ add_branch \in BOOLEAN
    /\ targets_relative_dir = FALSE
    /\ custom_data = {}
    /\ descriptors = InitialDescriptors
    /\ repositories = <<>>
    /\ repositories_json = NoFile
    /\ InitNoKeys
    /\ InitSingle

\* A test that takes the authentication repository for a target repository.
WritesDescriptorForAuthRepo(e) == IsDir(e) /\ IsGitRepository(e)
\* Lines 167-170: _update_target_repos goes on to write for a directory that is not the
\* auth repo and is a git repository.
WritesDescriptor(e) == ~(~IsDir(e) \/ IsAuthRepo(e)) /\ IsGitRepository(e)

\* Lines 171-173: data of the descriptor.
DescriptorData(e, with_branch) ==
    IF with_branch
    THEN DictSet(DictSet(<<>>, "commit", HeadCommitSha(e)), "branch", CurrentBranch(e))
    ELSE DictSet(<<>>, "commit", HeadCommitSha(e))

\* Lines 206-209 and 165-177: one iteration of the loop over targets_directory.glob("*"),
\* calling _update_target_repos with the targets directory of the namespace.
UpdateTargetRepos ==
    /\ op = "update_target_repos" /\ pc = "ut_loop"
    /\ gi <= Len(glob)
    /\ descriptors' = IF WritesDescriptor(glob[gi])
                      THEN [descriptors EXCEPT ![<<namespace, glob[gi]>>] =
                                DescriptorData(glob[gi], add_branch)]
                      ELSE descriptors
    /\ gi' = gi + 1
    /\ UNCHANGED <<sessionVars, cmdVars, promptVars, acquired, targets_dir, glob, namespace,
                   add_branch, targets_relative_dir, custom_data, repositories,
                   repositories_json, createHist, targetVars, loopLog, op, pc, outcome,
                   keystore, roleVars, createVars, histVars, loadVars, diskVars>>

\* Line 206: the loop is exhausted and update_target_repos_from_fs returns.
UpdateTargetReposReturn ==
    /\ op = "update_target_repos" /\ pc = "ut_loop"
    /\ gi > Len(glob)
    /\ Finish("ok")
    /\ UNCHANGED <<sessionVars, cmdVars, promptVars, acquired, targets_dir, scanVars,
                   createHist, targetVars, loopLog, op, keystore, roleVars, createVars,
                   histVars, loadVars, diskVars>>

\* Names that repositories.json may list: one without a namespace, and two of the
\* namespace ns, the second a directory that is not a git repository.
JsonNames == {<<"b">>, <<"ns", "a">>, <<"ns", "d">>}

\* update_target_repos_from_repositories_json(repo_path, root_dir, namespace, add_branch):
\* targets/repositories.json lists some of the names, in any order.
InitUpdateFromRepositoriesJson ==
    /\ op = "update_target_repos_json"
    /\ pc = "uj_loop"
    /\ glob = <<>>
    /\ gi = 1
    /\ namespace = ""
    /\ add_branch \in BOOLEAN
    /\ targets_relative_dir = FALSE
    /\ custom_data = {}
    /\ descriptors = InitialDescriptors
    /\ repositories = <<>>
    /\ \E names \in Orderings(JsonNames) :
         repositories_json = [i \in 1..Len(names) |-> <<names[i], <<>>>>]
    /\ InitNoKeys
    /\ InitSingle

\* Line 240: repo_name.rsplit("/", 1), of a name held as its components.
NamespaceAndName(repo_name) ==
    IF Len(repo_name) > 1
    THEN <<SubSeq(repo_name, 1, Len(repo_name) - 1), repo_name[Len(repo_name)]>>
    ELSE <<repo_name[1]>>

\* Lines 238-245: one iteration of the loop over the names of repositories.json.
\* namespace and targets_dir are assigned only for a name with a "/"; targets_dir.mkdir
\* raises UnboundLocalError when no assignment has reached targets_dir; else
\* _update_target_repos writes targets_dir / target_repo_path.name.
UpdateFromRepositoriesJson ==
    /\ op = "update_target_repos_json" /\ pc = "uj_loop"
    /\ gi <= Len(repositories_json)
    /\ LET repo_name == repositories_json[gi][1]
           namespace_and_name == NamespaceAndName(repo_name)
           name == repo_name[Len(repo_name)]
       IN  /\ IF Len(namespace_and_name) > 1
              THEN /\ namespace' = namespace_and_name[1][1]
                   /\ targets_dir' = namespace_and_name[1][1]
              ELSE UNCHANGED <<namespace, targets_dir>>
           /\ IF targets_dir' = Unassigned
              THEN /\ Finish("unbound_local_error")
                   /\ UNCHANGED <<descriptors, gi>>
              ELSE /\ descriptors' = IF WritesDescriptor(name)
                                     THEN [descriptors EXCEPT ![<<targets_dir', name>>] =
                                               DescriptorData(name, add_branch)]
                                     ELSE descriptors
                   /\ gi' = gi + 1
                   /\ UNCHANGED <<pc, outcome>>
    /\ UNCHANGED <<sessionVars, cmdVars, promptVars, acquired, glob, add_branch,
                   targets_relative_dir, custom_data, repositories, repositories_json,
                   createHist, targetVars, loopLog, op, keystore, roleVars, createVars,
                   histVars, loadVars, diskVars>>

\* Line 238: the loop is exhausted and the function returns.
UpdateFromRepositoriesJsonReturn ==
    /\ op = "update_target_repos_json" /\ pc = "uj_loop"
    /\ gi > Len(repositories_json)
    /\ Finish("ok")
    /\ UNCHANGED <<sessionVars, cmdVars, promptVars, acquired, targets_dir, scanVars,
                   createHist, targetVars, loopLog, op, keystore, roleVars, createVars,
                   histVars, loadVars, diskVars>>

\* generate_repositories_json(repo_path, root_dir, namespace, targets_relative_dir,
\* custom_data).
InitGenerateRepositoriesJson ==
    /\ op = "repositories_json"
    /\ pc = "gr_loop"
    /\ glob \in Perms(EntryNames)
    /\ gi = 1
    /\ namespace \in Namespaces
    /\ add_branch = FALSE
    /\ targets_relative_dir \in BOOLEAN
    /\ custom_data \in SUBSET {<<"b">>, <<"ns", "a">>}
    /\ descriptors = InitialDescriptors
    /\ repositories = <<>>
    /\ repositories_json = NoFile
    /\ InitNoKeys
    /\ InitSingle

\* Lines 565-569: the entries the loop does not skip.
ListsRepository(e) == ~(~IsDir(e) \/ IsAuthRepo(e)) /\ IsGitRepository(e)

\* Lines 570-573: target_repo_namespaced_name, as the sequence of its path components.
NamespacedName(e) == IF namespace = "" THEN <<e>> ELSE <<namespace, e>>

\* A url that prefers the path of the repository to its remote.
UrlPathFirst(e) ==
    IF targets_relative_dir THEN <<"relative posix path", e>>
    ELSE IF RemoteUrl(e) = NoRemote THEN <<"absolute posix path", e>>
    ELSE RemoteUrl(e)
\* Lines 578-585: the remote url if there is one, else the path relative to
\* targets_relative_dir if that is given, else the absolute path, as a POSIX path.
Url(e) ==
    IF RemoteUrl(e) # NoRemote THEN RemoteUrl(e)
    ELSE IF targets_relative_dir THEN <<"relative posix path", e>>
    ELSE <<"absolute posix path", e>>

\* Lines 586-590: the entry of the repository.
RepositoryEntry(e) ==
    IF NamespacedName(e) \in custom_data
    THEN DictSet(DictSet(<<>>, "urls", <<Url(e)>>), "custom", <<"custom", NamespacedName(e)>>)
    ELSE DictSet(<<>>, "urls", <<Url(e)>>)

\* Lines 564-590: one iteration of the loop over targets_directory.glob("*").
GenerateListEntry ==
    /\ op = "repositories_json" /\ pc = "gr_loop"
    /\ gi <= Len(glob)
    /\ repositories' = IF ListsRepository(glob[gi])
                       THEN DictSet(repositories, NamespacedName(glob[gi]),
                                    RepositoryEntry(glob[gi]))
                       ELSE repositories
    /\ gi' = gi + 1
    /\ UNCHANGED <<sessionVars, cmdVars, promptVars, acquired, targets_dir, glob, namespace,
                   add_branch, targets_relative_dir, custom_data, descriptors,
                   repositories_json, createHist, targetVars, loopLog, op, pc, outcome,
                   keystore, roleVars, createVars, histVars, loadVars, diskVars>>

\* Lines 592-593: json.dumps({"repositories": repositories}, indent=4) keeps the items
\* of the dict in insertion order; the text is written to targets/repositories.json.
GenerateWrite ==
    /\ op = "repositories_json" /\ pc = "gr_loop"
    /\ gi > Len(glob)
    /\ repositories_json' = repositories
    /\ Finish("ok")
    /\ UNCHANGED <<sessionVars, cmdVars, promptVars, acquired, targets_dir, glob, gi,
                   namespace, add_branch, targets_relative_dir, custom_data, descriptors,
                   repositories, createHist, targetVars, loopLog, op, keystore, roleVars,
                   createVars, histVars, loadVars, diskVars>>

NextScan ==
    \/ UpdateTargetRepos
    \/ UpdateTargetReposReturn
    \/ GenerateListEntry
    \/ GenerateWrite
    \/ UpdateFromRepositoriesJson
    \/ UpdateFromRepositoriesJsonReturn

\* ------------------------------------------------------------------ specification
\* ------------------------------------------------------------------ setup_signing_yubikey
\* setup_signing_yubikey(certs_dir, scheme).
InitSetupSigningYubikey ==
    /\ op = "setup_signing_yubikey"
    /\ pc = "sy_warn"
    /\ InitNoKeys
    /\ InitSingle
    /\ InitNoScan

\* Lines 733-738: the warning; a negative answer returns.
SetupYubikeyWarning ==
    /\ op = "setup_signing_yubikey" /\ pc = "sy_warn"
    /\ \E answer \in BOOLEAN :
         /\ roundLog' = <<IF answer THEN "confirmed" ELSE "declined">>
         /\ IF answer
            THEN pc' = "sy_prompt" /\ UNCHANGED outcome
            ELSE Finish("ok")
    /\ UNCHANGED <<sessionVars, cmdVars, roles_entered, left_empty, acquired, targets_dir,
                   scanVars, createHist, targetVars, loopLog, op, keystore, roleVars,
                   createVars, histVars, loadVars, diskVars>>

\* Line 733: click.confirm raises.
SetupYubikeyConfirmAborts ==
    /\ op = "setup_signing_yubikey" /\ pc = "sy_warn"
    /\ Finish("aborted")
    /\ UNCHANGED <<sessionVars, cmdVars, promptVars, acquired, targets_dir, scanVars,
                   createHist, targetVars, loopLog, op, keystore, roleVars, createVars,
                   histVars, loadVars, diskVars>>

\* Lines 739-745: yubikey_prompt returns, yk.setup_new_yubikey sets the token up anew
\* and the certificate is exported.
SetupYubikeySetUp ==
    /\ op = "setup_signing_yubikey" /\ pc = "sy_prompt"
    /\ tokenPrompted' = TRUE
    /\ tokenWiped' = TRUE
    /\ roundLog' = roundLog \o <<"prompt", "setup">>
    /\ Finish("ok")
    /\ UNCHANGED <<sessionVars, cmdVars, roles_entered, left_empty, acquired, targets_dir,
                   scanVars, createHist, targetVars, loopLog, op, keystore, roleVars,
                   createVars, keystoreFailed, keystoreWritten, tokenStarted, loadVars,
                   diskVars>>

\* Lines 739-741: yubikey_prompt raises.
SetupYubikeyPromptFails ==
    /\ op = "setup_signing_yubikey" /\ pc = "sy_prompt"
    /\ tokenPrompted' = TRUE
    /\ roundLog' = Append(roundLog, "prompt")
    /\ Finish("token_error")
    /\ UNCHANGED <<sessionVars, cmdVars, roles_entered, left_empty, acquired, targets_dir,
                   scanVars, createHist, targetVars, loopLog, op, keystore, roleVars,
                   createVars, keystoreFailed, keystoreWritten, tokenStarted, tokenWiped,
                   loadVars, diskVars>>

NextSetupSigningYubikey ==
    \/ SetupYubikeyWarning
    \/ SetupYubikeyConfirmAborts
    \/ SetupYubikeySetUp
    \/ SetupYubikeyPromptFails

\* ------------------------------------------------------------------ init_repo
\* init_repo(repo_path, root_dir, namespace, targets_relative_dir, custom_data,
\* add_branch, keystore, roles_key_infos, commit, test, scheme) with a roles_key_infos
\* that names the four top-level roles, none of them token-backed.
InitInitRepo ==
    /\ op = "init_repo"
    /\ pc = "ir_start"
    /\ caller = "init_repo"
    /\ other = "none"
    /\ format_output = FALSE
    /\ keystore \in BOOLEAN
    /\ rolesSeq = MandatoryRoles
    /\ yubikey = [r \in RoleNames |-> FALSE]
    /\ vkeys = [r \in RoleNames |-> {}]
    /\ threshold = [r \in RoleNames |-> 1]
    /\ role = NoRole
    /\ rootOld = {}
    /\ keys_num = 0
    /\ glob = <<>>
    /\ gi = 0
    /\ namespace \in Namespaces
    /\ add_branch = FALSE
    /\ targets_relative_dir = FALSE
    /\ custom_data = {}
    /\ descriptors = InitialDescriptors
    /\ repositories = <<>>
    /\ repositories_json = NoFile
    /\ InitCommon

\* The order in which init_repo's scans enumerate a directory: by name.
GlobByName(S) ==
    CHOOSE s \in Perms(S) : \A i, j \in 1..Len(s) : i < j => NameRank(s[i]) < NameRank(s[j])

\* Lines 654 and 657: init_repo passes targets_directory = root_dir / namespace as the
\* root_dir of update_target_repos_from_fs, which scans root_dir / namespace of its own
\* (198): the directory root_dir/namespace/namespace, that is root_dir/namespace for the
\* empty namespace and else a directory that does not exist.
NestedEntryNames == IF namespace = "" THEN EntryNames ELSE {}

\* The repository Repository(repo_path) loads after create_repository returned: the
\* one just written, the one that existed before, or none when no metadata was written.
KeysOnDisk(how) ==
    IF how = "ok" THEN vkeys
    ELSE IF how = "exists" THEN [r \in RoleNames |-> {1}]
    ELSE [r \in RoleNames |-> {}]
ThresholdsOnDisk(how) == IF how = "ok" THEN threshold ELSE [r \in RoleNames |-> 1]

\* Lines 651-656: namespace and root_dir are resolved, roles_key_infos is read and
\* create_repository is called.
InitRepoStart ==
    /\ op = "init_repo" /\ pc = "ir_start"
    /\ op' = "create"
    /\ pc' = "cr_start"
    /\ stepsLog' = <<<<"call", "create_repository">>>>
    /\ UNCHANGED <<caller, other, cmdVars, promptVars, acquired, targets_dir, scanVars,
                   createHist, targetVars, loopLog, outcome, keystore, roleVars, createVars,
                   histVars, loadVars, diskVars>>

\* A create_repository after whose return init_repo goes straight to
\* register_target_files.
InitRepoCreateReturnedThenRegister ==
    /\ caller = "init_repo" /\ op = "create" /\ pc = "done"
    /\ outcome \in {"ok", "exists", "keystore_error"}
    /\ stepsLog' = stepsLog \o <<<<"return", "create_repository", outcome>>,
                                  <<"call", "register_target_files">>>>
    /\ op' = "register"
    /\ pc' = "rt_start"
    /\ outcome' = "running"
    /\ vkeys' = KeysOnDisk(outcome)
    /\ threshold' = ThresholdsOnDisk(outcome)
    /\ skeys' = [r \in RoleNames |-> {}]
    /\ number' = [r \in RoleNames |-> 0]
    /\ pass' = 1 /\ idx' = 1 /\ key_num' = 0 /\ regDone' = {}
    /\ keystoreFailed' = FALSE /\ keystoreWritten' = FALSE
    /\ repoCreated' = FALSE /\ declinedGenerate' = FALSE /\ curKeyWritten' = FALSE
    /\ written' = 0 /\ committed' = FALSE
    /\ UNCHANGED <<caller, other, cmdVars, promptVars, acquired, targets_dir, scanVars,
                   targetVars, loopLog, keystore, providers, rolesSeq, yubikey, use_existing,
                   tokenStarted, tokenPrompted, tokenWiped, loadVars, updated, fileWrites,
                   expiration>>

\* Lines 656-657: create_repository has returned, having created the repository or
\* not; its locals and the repository object are gone, what it wrote is on disk;
\* update_target_repos_from_fs is called.
InitRepoCreateReturned ==
    /\ caller = "init_repo" /\ op = "create" /\ pc = "done"
    /\ outcome \in {"ok", "exists", "keystore_error"}
    /\ stepsLog' = stepsLog \o <<<<"return", "create_repository", outcome>>,
                                  <<"call", "update_target_repos_from_fs">>>>
    /\ op' = "update_target_repos"
    /\ pc' = "ut_loop"
    /\ outcome' = "running"
    /\ glob' = GlobByName(NestedEntryNames)
    /\ gi' = 1
    /\ vkeys' = KeysOnDisk(outcome)
    /\ threshold' = ThresholdsOnDisk(outcome)
    /\ skeys' = [r \in RoleNames |-> {}]
    /\ number' = [r \in RoleNames |-> 0]
    /\ pass' = 1 /\ idx' = 1 /\ key_num' = 0 /\ regDone' = {}
    /\ keystoreFailed' = FALSE /\ keystoreWritten' = FALSE
    /\ repoCreated' = FALSE /\ declinedGenerate' = FALSE /\ curKeyWritten' = FALSE
    /\ written' = 0 /\ committed' = FALSE
    /\ UNCHANGED <<caller, other, cmdVars, promptVars, acquired, targets_dir, namespace,
                   add_branch, targets_relative_dir, custom_data, descriptors, repositories,
                   repositories_json, targetVars, loopLog, keystore, providers, rolesSeq,
                   yubikey, use_existing, tokenStarted, tokenPrompted, tokenWiped, loadVars,
                   updated, fileWrites, expiration>>

\* Lines 657-660: update_target_repos_from_fs has returned and
\* generate_repositories_json is called with root_dir and namespace.
InitRepoUpdateReturned ==
    /\ caller = "init_repo" /\ op = "update_target_repos" /\ pc = "done"
    /\ stepsLog' = stepsLog \o <<<<"return", "update_target_repos_from_fs", outcome>>,
                                  <<"call", "generate_repositories_json">>>>
    /\ op' = "repositories_json"
    /\ pc' = "gr_loop"
    /\ outcome' = "running"
    /\ glob' = GlobByName(EntryNames)
    /\ gi' = 1
    /\ UNCHANGED <<caller, other, cmdVars, promptVars, acquired, targets_dir, namespace,
                   add_branch, targets_relative_dir, custom_data, descriptors, repositories,
                   repositories_json, createHist, targetVars, loopLog, keystore, roleVars,
                   createVars, histVars, loadVars, diskVars>>

\* Lines 658-661: generate_repositories_json has returned and register_target_files
\* is called.
InitRepoGenerateReturned ==
    /\ caller = "init_repo" /\ op = "repositories_json" /\ pc = "done"
    /\ stepsLog' = stepsLog \o <<<<"return", "generate_repositories_json", outcome>>,
                                  <<"call", "register_target_files">>>>
    /\ op' = "register"
    /\ pc' = "rt_start"
    /\ outcome' = "running"
    /\ glob' = <<>>
    /\ gi' = 0
    /\ repositories' = <<>>
    /\ UNCHANGED <<caller, other, cmdVars, promptVars, acquired, targets_dir, namespace,
                   add_branch, targets_relative_dir, custom_data, descriptors,
                   repositories_json, createHist, targetVars, loopLog, keystore, roleVars,
                   createVars, histVars, loadVars, diskVars>>

\* Line 661: register_target_files has returned and init_repo returns.
InitRepoReturn ==
    /\ caller = "init_repo" /\ op = "register" /\ pc = "done"
    /\ outcome = "ok"
    /\ stepsLog[Len(stepsLog)][1] = "call"
    /\ stepsLog' = Append(stepsLog, <<"return", "register_target_files", outcome>>)
    /\ UNCHANGED <<caller, other, cmdVars, promptVars, acquired, targets_dir, scanVars,
                   createHist, targetVars, loopLog, op, pc, outcome, keystore, roleVars,
                   createVars, histVars, loadVars, diskVars>>

NextInitRepo ==
    \/ InitRepoStart
    \/ InitRepoCreateReturned
    \/ InitRepoUpdateReturned
    \/ InitRepoGenerateReturned
    \/ InitRepoReturn

\* ------------------------------------------------------------------ repo update
\* The texts str(e) of the exceptions update_repository may raise.
ErrorTexts == {"validation failed", "clone failed"}

\* taf repo update url [clients-auth-path] [--format-output] ...
InitRepoUpdate ==
    /\ op = "repo_update"
    /\ pc = "up_start"
    /\ format_output \in BOOLEAN
    /\ caller = "none"
    /\ other = "none"
    /\ InitNoKeys
    /\ InitNoScan

\* Lines 178-179: neither clients_auth_path nor clients_library_dir is given; the
\* UsageError is raised before the try statement.
RepoUpdateUsageError ==
    /\ op = "repo_update" /\ pc = "up_start"
    /\ Finish("usage_error")
    /\ UNCHANGED <<sessionVars, cmdVars, promptVars, acquired, targets_dir, scanVars,
                   createHist, targetVars, loopLog, op, keystore, roleVars, createVars,
                   histVars, loadVars, diskVars>>

\* Lines 197-212: update_repository returns; with --format-output the status
\* {"updateSuccessful": true} is printed.
RepoUpdateReturns ==
    /\ op = "repo_update" /\ pc = "up_start"
    /\ update_result' = <<"returned">>
    /\ statuses' = IF format_output
                   THEN Append(statuses, DictSet(<<>>, "updateSuccessful", TRUE))
                   ELSE statuses
    /\ Finish("ok")
    /\ UNCHANGED <<sessionVars, format_output, promptVars, acquired, targets_dir, scanVars,
                   createHist, targetVars, loopLog, op, keystore, roleVars, createVars,
                   histVars, loadVars, diskVars>>

\* An except clause that raises the exception again whatever --format-output says.
RepoUpdateRaisesAgain ==
    /\ op = "repo_update" /\ pc = "up_start"
    /\ \E e \in ErrorTexts :
         /\ update_result' = <<"Exception", e>>
         /\ Finish("raised")
    /\ UNCHANGED <<sessionVars, format_output, statuses, promptVars, acquired, targets_dir,
                   scanVars, createHist, targetVars, loopLog, op, keystore, roleVars,
                   createVars, histVars, loadVars, diskVars>>

\* Lines 213-221: update_repository raises an Exception e; with --format-output the
\* status {"updateSuccessful": false, "error": str(e)} is printed and the command
\* returns, without it e is raised again.
RepoUpdateRaises ==
    /\ op = "repo_update" /\ pc = "up_start"
    /\ \E e \in ErrorTexts :
         /\ update_result' = <<"Exception", e>>
         /\ IF format_output
            THEN /\ statuses' = Append(statuses,
                                  DictSet(DictSet(<<>>, "updateSuccessful", FALSE), "error", e))
                 /\ Finish("ok")
            ELSE /\ UNCHANGED statuses
                 /\ Finish("raised")
    /\ UNCHANGED <<sessionVars, format_output, promptVars, acquired, targets_dir, scanVars,
                   createHist, targetVars, loopLog, op, keystore, roleVars, createVars,
                   histVars, loadVars, diskVars>>

\* Lines 197-213: update_repository is left by an exception that is not an Exception
\* (KeyboardInterrupt, SystemExit); `except Exception` does not catch it.
RepoUpdateInterrupted ==
    /\ op = "repo_update" /\ pc = "up_start"
    /\ update_result' = <<"BaseException">>
    /\ Finish("interrupted")
    /\ UNCHANGED <<sessionVars, format_output, statuses, promptVars, acquired, targets_dir,
                   scanVars, createHist, targetVars, loopLog, op, keystore, roleVars,
                   createVars, histVars, loadVars, diskVars>>

NextRepoUpdate ==
    \/ RepoUpdateUsageError
    \/ RepoUpdateReturns
    \/ RepoUpdateRaises
    \/ RepoUpdateInterrupted

Init ==
    \/ InitCreate
    \/ InitCreateInteractive
    \/ InitAddKey
    \/ InitRegister
    \/ InitExpiry
    \/ InitUpdateTargetRepos
    \/ InitGenerateRepositoriesJson
    \/ InitSetupSigningYubikey
    \/ InitUpdateFromRepositoriesJson
    \/ InitRepoUpdate
    \/ InitInitRepo

Next ==
    \/ NextCreate
    \/ NextAddKey
    \/ NextLoad
    \/ NextRegister
    \/ NextExpiry
    \/ NextScan
    \/ NextSetupSigningYubikey
    \/ NextRepoUpdate
    \/ NextInitRepo

Spec == Init /\ [][Next]_vars

\* ------------------------------------------------------------------ claims
\* The roles roles_key_infos names, and those whose threshold create_repository has
\* assigned so far.
NamedRoles == {rolesSeq[i] : i \in 1..Len(rolesSeq)}
ThresholdAssigned == {r \in NamedRoles : number[r] > 0 /\ ~RoleObjIsNone(r)}

\* C1: during create_repository, after each threshold assignment and after each key
\* registration, every role R of roles_key_infos has
\* threshold(R) <= |verification keys(R)| <= configured number(R).
C1_ThresholdWithinKeys ==
    op = "create" =>
        \A r \in ThresholdAssigned :
            /\ threshold[r] <= Cardinality(vkeys[r])
            /\ Cardinality(vkeys[r]) <= number[r]

\* C2: in create_repository, whatever the order of the roles in roles_key_infos, once
\* the registration of a token-backed role has begun every role that is not
\* token-backed has all its keys registered.
C2_NonTokenRolesFirst ==
    (op = "create" /\ tokenStarted) =>
        \A r \in NamedRoles : ~yubikey[r] => r \in regDone

\* C2 witness: a token-backed role precedes a keystore role in roles_key_infos, and the
\* token registration has begun after the keystore role was completed.
C2_Witness ==
    /\ op = "create" /\ tokenStarted
    /\ \E i, j \in 1..Len(rolesSeq) :
         /\ i < j
         /\ yubikey[rolesSeq[i]] /\ ~yubikey[rolesSeq[j]]
         /\ rolesSeq[j] \in regDone

\* C3 (as claimed): in create_repository, once a keystore read has raised KeystoreError
\* no token prompt and no token wipe/install is issued in that run, whatever the user
\* answers.
C3_NoTokenAfterKeystoreFailure ==
    (op = "create" /\ keystoreFailed) => (~tokenPrompted /\ ~tokenWiped)

\* C3 (amended): in create_repository, a run that a KeystoreError ends (the user declined
\* "Generate new keys?", or the written pair could not be read back) has issued no token
\* prompt and no token wipe/install, and has not entered a token registration.
C3_NoTokenWhenKeystoreErrorEndsRun ==
    (op = "create" /\ outcome = "keystore_error") =>
        (~tokenStarted /\ ~tokenPrompted /\ ~tokenWiped)

\* C3 witness: a KeystoreError ended the run while a token-backed role, named before
\* the failing keystore role, was still to be registered.
C3_Witness ==
    /\ op = "create" /\ outcome = "keystore_error" /\ pass = 1
    /\ \E i \in 1..Len(rolesSeq) : i < idx /\ yubikey[rolesSeq[i]]

\* C4: when add_signing_key executes writeall, signature providers are registered for at
\* least threshold(root) root keys that existed before the new key was added.
C4_ThresholdOfExistingRootKeys ==
    (op = "add_key" /\ written > 0) =>
        Cardinality(providers["root"] \cap rootOld) >= threshold["root"]

\* C4 witness: writeall is reached after a key was added to root itself, the new key has
\* a provider on root and the threshold is above one.
C4_Witness ==
    /\ op = "add_key" /\ written > 0
    /\ role = "root"
    /\ 0 \in providers["root"]
    /\ threshold["root"] > 1

\* C5: a run of add_signing_key that a failing prompt ends has executed no writeall, has
\* written no metadata file and made no commit; and writeall is never executed while
\* fewer than threshold(root) existing root keys have been provided.
C5_NoWriteOnFailure ==
    op = "add_key" =>
        /\ outcome \in {"token_error", "aborted", "attribute_error"} =>
               (written = 0 /\ fileWrites = <<>> /\ ~committed)
        /\ Cardinality(providers["root"] \cap rootOld) < threshold["root"] => written = 0

\* C5 witness: one existing root key was provided, the threshold is two, and the next
\* token prompt failed.
C5_Witness ==
    /\ op = "add_key" /\ outcome = "token_error"
    /\ threshold["root"] = 2
    /\ Cardinality(providers["root"] \cap rootOld) = 1
    /\ num_of_signatures = 1

\* C6: in register_target_files the in-memory updates happen in the order targets,
\* snapshot, timestamp; writeall is executed only after all three; and no metadata file
\* is written before writeall.
C6_UpdatesOrderedBeforeWriteall ==
    op = "register" =>
        /\ updated \in {<<>>, <<"targets">>, <<"targets", "snapshot", "timestamp">>}
        /\ written > 0 => updated = <<"targets", "snapshot", "timestamp">>
        /\ fileWrites = <<>>

\* C6 witness: register_target_files has executed writeall.
C6_Witness ==
    /\ op = "register" /\ written = 1
    /\ updated = <<"targets", "snapshot", "timestamp">>

\* C7: a run of create_repository or register_target_files that ends because a
\* confirmation, a keystore read or a token prompt raised has executed no writeall, has
\* written no metadata file and has made no commit.
C7_AbortWritesNothing ==
    (op \in {"create", "register"} /\ outcome \in {"aborted", "token_error", "keystore_error"})
        => (written = 0 /\ fileWrites = <<>> /\ ~committed)

\* C7 witness: register_target_files is aborted at a prompt for the keys of timestamp,
\* after targets was updated in memory.
C7_Witness ==
    /\ op = "register" /\ outcome = "aborted"
    /\ phase = "timestamp"
    /\ updated = <<"targets">>

\* C8: update_metadata_expiration_date either leaves the role with an expiration later
\* than the one recorded before, or fails with MonotonicViolation without modifying
\* anything.
C8_RefreshMonotone ==
    op = "expiry" =>
        /\ pc = "ex_updated" => expiration[role] > InitialExpiry
        /\ outcome = "monotonic_violation" =>
               (expiration[role] = InitialExpiry /\ fileWrites = <<>>)

\* C9: when update_metadata_expiration_date has done its update for role R, R has been
\* re-signed and after it every role depending on R in targets -> snapshot -> timestamp.
C9_ChainResigned ==
    (op = "expiry" /\ pc = "ex_updated") => updated = <<role>> \o Dependents(role)

\* C10: the list _load_signing_keys returns for a role with threshold T and N keys has at
\* least T and at most N elements.
C10_ReturnedLengthWithinBounds ==
    pc = "ls_return" =>
        /\ threshold[role] <= Len(keys)
        /\ Len(keys) <= keys_num

\* Events of loopLog that are a key acquired or asked for.
KeyEvents == {"file", "token", "cmd"}
\* Number of keys loaded before the i-th event of the running key loading.
KeysBefore(i) == Cardinality({j \in 1..(i - 1) : loopLog[j] \in KeyEvents})
\* The threshold the running loop compares num_of_signatures with.
LoopThreshold == IF op = "add_key" THEN threshold["root"] ELSE threshold[role]

\* C11: in the key-loading loops of _load_signing_keys and add_signing_key the
\* confirmation "threshold reached, load more?" is surfaced only when at least
\* threshold keys are loaded, exactly once before each key acquired beyond the
\* threshold, and after a negative answer no key is prompted for.
C11_LoadMoreConfirmation ==
    op \in {"add_key", "register", "expiry"} =>
        \A i \in 1..Len(loopLog) :
            /\ loopLog[i] \in {"more", "stop"} =>
                   /\ KeysBefore(i) >= LoopThreshold
                   /\ i > 1 => loopLog[i - 1] \notin {"more", "stop"}
            /\ (loopLog[i] \in {"token", "cmd"} /\ KeysBefore(i) >= LoopThreshold) =>
                   (i > 1 /\ loopLog[i - 1] = "more")
            /\ loopLog[i] = "stop" => i = Len(loopLog)

\* C11 witness: add_signing_key loaded the threshold of one root key without a
\* confirmation, a second one after a positive answer, and stopped at a negative one.
C11_Witness ==
    /\ op = "add_key" /\ threshold["root"] = 1
    /\ loopLog = <<"token", "more", "token", "stop">>

\* A token prompt precedes the i-th event of the running key loading.
TokenBefore(i) == \E j \in 1..(i - 1) : loopLog[j] = "token"

\* C12 (as claimed): within one call of _load_signing_keys no keystore key is read from
\* a file or prompted for with key_cmd_prompt after a token prompt was issued.
C12_KeystoreKeysBeforeToken ==
    op \in {"register", "expiry"} =>
        \A i \in 1..Len(loopLog) : loopLog[i] \in {"file", "cmd"} => ~TokenBefore(i)

\* C12 (amended): within one call of _load_signing_keys every read of a keystore file
\* happens before the first token prompt.
C12_KeystoreFilesBeforeToken ==
    op \in {"register", "expiry"} =>
        \A i \in 1..Len(loopLog) : loopLog[i] = "file" => ~TokenBefore(i)

\* C12 witness: a call read a keystore file and then issued a token prompt for the
\* next key.
C12_Witness ==
    /\ op \in {"register", "expiry"}
    /\ \E i, j \in 1..Len(loopLog) :
         i < j /\ loopLog[i] = "file" /\ loopLog[j] = "token"

\* C13: create_repository on a path that already hosts a git repository returns without
\* creating a repository, registering a key, touching a token, writing to the keystore,
\* executing writeall or committing.
C13_ExistingPathUntouched ==
    (op = "create" /\ outcome = "exists") =>
        /\ ~repoCreated
        /\ \A r \in RoleNames : vkeys[r] = {} /\ skeys[r] = {} /\ providers[r] = {}
        /\ regDone = {}
        /\ ~tokenStarted /\ ~tokenPrompted /\ ~tokenWiped
        /\ ~keystoreWritten
        /\ written = 0 /\ ~committed

\* C13 witness: the call returned for an existing repository although a keystore was
\* given and a token-backed role was configured.
C13_Witness ==
    /\ op = "create" /\ outcome = "exists"
    /\ keystore
    /\ \E i \in 1..Len(rolesSeq) : yubikey[rolesSeq[i]]

\* C14: in create_repository with a keystore, when a keystore key cannot be loaded and
\* the user declines "Generate new keys?", the call ends with the KeystoreError outcome,
\* writeall is not executed, nothing is written to the keystore for that key and no
\* commit is made.
C14_DeclinedGenerateWritesNothing ==
    (op = "create" /\ declinedGenerate) =>
        /\ keystore /\ keystoreFailed
        /\ outcome = "keystore_error"
        /\ written = 0
        /\ ~curKeyWritten
        /\ ~committed

\* C14 witness: the user declined for a key after a pair was generated and written to
\* the keystore for an earlier key of the run.
C14_Witness ==
    /\ op = "create" /\ declinedGenerate
    /\ outcome = "keystore_error"
    /\ keystoreWritten

\* C15: create_repository rejects a role whose threshold is greater than its number: no
\* key is registered for such a role and writeall is not executed.
C15_ThresholdAboveNumberRejected ==
    op = "create" =>
        \A r \in ThresholdAssigned :
            threshold[r] > number[r] => (vkeys[r] = {} /\ written = 0)

\* C16: after a successful create_repository whose roles are all keystore-backed, every
\* role of roles_key_infos has exactly number verification keys and at least threshold
\* loaded signing keys, and writeall was executed exactly once, after all key
\* registrations and before the commit.
C16_CreatedRolesComplete ==
    (op = "create" /\ (\A r \in NamedRoles : ~yubikey[r])) =>
        /\ written > 0 => (written = 1 /\ NamedRoles \subseteq regDone)
        /\ committed => written = 1
        /\ outcome = "ok" =>
               \A r \in NamedRoles :
                   /\ Cardinality(vkeys[r]) = number[r]
                   /\ Cardinality(skeys[r]) >= threshold[r]

\* The files under targets/ in lexicographic path order.
SortedTargets ==
    CHOOSE s \in Perms({p \in RepoFiles : IsBelow(<<"targets">>, p)}) :
        \A i, j \in 1..Len(s) : i < j => PathLess(s[i], s[j])

\* C17: for every order in which os.walk enumerates the files under targets/,
\* register_target_files registers exactly the files under targets/ (none under
\* metadata/) and the entries of the written targets metadata are in lexicographic path
\* order, the same for every run over the same worktree.
C17_TargetsEmittedSorted ==
    op = "register" =>
        /\ (pc # "rt_start" /\ outcome # "repository_error") =>
               /\ {targetsAdded[i] : i \in 1..Len(targetsAdded)}
                      = {p \in RepoFiles : IsBelow(<<"targets">>, p)}
               /\ Len(targetsAdded) = Cardinality({p \in RepoFiles : IsBelow(<<"targets">>, p)})
        /\ written > 0 => emitted = SortedTargets

\* C17 witness: os.walk enumerated z/b before z/a and the metadata was written.
C17_Witness ==
    /\ op = "register" /\ written > 0
    /\ targetsAdded = <<<<"targets", "a">>, <<"targets", "z", "b">>, <<"targets", "z", "a">>>>

\* The entries the loop over glob has dealt with.
Scanned == {glob[k] : k \in 1..(gi - 1)}
\* The entries that are a directory, a git repository and not the auth repo itself.
TargetRepos == {e \in EntryNames : IsDir(e) /\ IsGitRepository(e) /\ ~IsAuthRepo(e)}

\* C18: _update_target_repos writes <targets_dir>/<basename> if and only if
\* target_repo_path is a directory, is a git repository and is not the auth repo; the
\* descriptor holds the HEAD commit sha, and the current branch if and only if add_branch
\* is true; in all other cases no file is created or changed.
C18_DescriptorWrittenIffTargetRepo ==
    op = "update_target_repos" =>
        \A p \in Namespaces \X EntryNames :
            IF p[1] = namespace /\ p[2] \in Scanned \cap TargetRepos
            THEN /\ descriptors[p] # NoFile
                 /\ "commit" \in DictKeys(descriptors[p])
                 /\ DictGet(descriptors[p], "commit") = HeadCommitSha(p[2])
                 /\ "branch" \in DictKeys(descriptors[p]) <=> add_branch
                 /\ add_branch => DictGet(descriptors[p], "branch") = CurrentBranch(p[2])
                 /\ DictKeys(descriptors[p]) \subseteq {"commit", "branch"}
            ELSE descriptors[p] = InitialDescriptors[p]

\* C18 witness: the scan is over, with add_branch a descriptor replaced the stale file of
\* one target repository and was created for the other.
C18_Witness ==
    /\ op = "update_target_repos" /\ outcome = "ok"
    /\ add_branch /\ namespace = "ns"
    /\ descriptors[<<"ns", "a">>] \notin {NoFile, StaleData}
    /\ descriptors[<<"ns", "b">>] # NoFile
    /\ descriptors[<<"ns", "auth">>] = StaleData

\* C19: for every order in which the target directory is enumerated, the keys of the
\* repositories mapping written by generate_repositories_json are in lexicographic order
\* of namespaced name.
C19_RepositoriesKeysSorted ==
    (op = "repositories_json" /\ repositories_json # NoFile) =>
        \A i, j \in 1..Len(repositories_json) :
            i < j => PathLess(repositories_json[i][1], repositories_json[j][1])

\* C20: the written repositories mapping has exactly one entry per direct subdirectory
\* that is a git repository and not the auth repo, keyed by the namespaced name; each
\* entry has exactly one url, the remote url if set, else the POSIX path relative to
\* targets_relative_dir if given, else the absolute path; it has a "custom" field iff
\* custom_data contains the namespaced name.
C20_RepositoriesEntries ==
    (op = "repositories_json" /\ repositories_json # NoFile) =>
        /\ DictKeys(repositories_json) = {NamespacedName(e) : e \in TargetRepos}
        /\ Len(repositories_json) = Cardinality(TargetRepos)
        /\ \A e \in TargetRepos :
               LET entry == DictGet(repositories_json, NamespacedName(e))
                   urls == DictGet(entry, "urls")
               IN  /\ Len(urls) = 1
                   /\ urls[1] = IF RemoteUrl(e) # NoRemote THEN RemoteUrl(e)
                                ELSE IF targets_relative_dir
                                     THEN <<"relative posix path", e>>
                                     ELSE <<"absolute posix path", e>>
                   /\ "custom" \in DictKeys(entry) <=> NamespacedName(e) \in custom_data
                   /\ DictKeys(entry) \subseteq {"urls", "custom"}

\* C20 witness: repositories.json is written with a namespace and a
\* targets_relative_dir, for a repository with a remote and custom data and one with
\* neither.
C20_Witness ==
    /\ op = "repositories_json" /\ repositories_json # NoFile
    /\ namespace = "ns" /\ targets_relative_dir
    /\ custom_data = {<<"ns", "a">>}
    /\ Len(repositories_json) = 2

\* C26: create_repository registers the keys of every role that roles_key_infos names,
\* delegated targets roles included: the role object of the role is resolved and
\* number(role) keys are registered for it.
C26_EveryNamedRoleRegistered ==
    op = "create" =>
        /\ outcome # "attribute_error"
        /\ outcome = "ok" =>
               \A r \in NamedRoles : r \in regDone /\ Cardinality(vkeys[r]) = number[r]

\* How a call ends when a prompt or a keystore read raises.
PromptFailures == {"aborted", "token_error", "keystore_error"}

\* C29: in init_repo, if create_repository returns without having created the
\* repository (it exists already, or a KeystoreError ended the key registration), none
\* of the following steps runs: no descriptor and no repositories.json is written and
\* register_target_files signs and writes nothing.
C29_NoStepAfterUncreated ==
    (/\ caller = "init_repo"
     /\ Len(stepsLog) >= 2
     /\ stepsLog[2][3] \in {"exists", "keystore_error"}) =>
        /\ Len(stepsLog) = 2
        /\ descriptors = InitialDescriptors
        /\ repositories_json = NoFile
        /\ updated = <<>> /\ written = 0

\* C30: register_target_files reaches writeall whenever at least threshold keys were
\* acquired for each of targets, snapshot and timestamp, whether a key came from the
\* keystore, from the command line or from a token: once the three key loadings have
\* returned with enough keys, the call does not end before writeall unless a prompt
\* raised.
C30_WriteallWhenKeysAcquired ==
    (/\ op = "register"
     /\ pc = "done"
     /\ outcome \notin PromptFailures
     /\ \A r \in SignedRoles : acquired[r] >= threshold[r]) => written > 0

\* Operations on a token: the prompt for it and its set-up anew.
TokenOps == {"prompt", "setup"}

\* C24: a token is set up anew (yk.setup_new_yubikey) only if, in the same prompt round,
\* the destructive warning was confirmed, in _register_yubikey after the reuse of the
\* token was declined; when the warning is declined no token operation follows in that
\* round: _register_yubikey asks for the choice again, setup_signing_yubikey returns.
C24_SetupOnlyAfterConfirmedWarning ==
    op \in {"create", "setup_signing_yubikey"} =>
        /\ \A i \in 1..Len(roundLog) :
               roundLog[i] = "setup" =>
                   /\ \E j \in 1..(i - 1) : roundLog[j] = "confirmed"
                   /\ op = "create" => roundLog[1] = "no reuse"
        /\ (\E i \in 1..Len(roundLog) : roundLog[i] = "declined") =>
               /\ \A j \in 1..Len(roundLog) : roundLog[j] \notin TokenOps
               /\ IF op = "create"
                  THEN pc = "yk_reuse" \/ (pc = "done" /\ outcome = "aborted")
                  ELSE pc = "done" /\ outcome = "ok"
        /\ tokenWiped => tokenPrompted

\* C24 witness: in _register_yubikey the reuse was declined, the warning confirmed and
\* the token set up anew.
C24_Witness ==
    /\ op = "create"
    /\ roundLog = <<"no reuse", "confirmed", "prompt", "setup">>
    /\ tokenWiped

\* The directory under targets/ that holds the descriptor of a repository name: the
\* targets directory itself ("") for a name without "/", targets/ns for ns/name.
DescriptorDir(repo_name) == IF Len(repo_name) > 1 THEN repo_name[1] ELSE ""
\* The names of repositories.json that the loop has processed.
ProcessedNames == {repositories_json[k][1] : k \in 1..(gi - 1)}

\* C25: for every order of the names in repositories.json,
\* update_target_repos_from_repositories_json writes the descriptor of a name without
\* "/" directly under the auth repo's targets directory and that of ns/name under
\* targets/ns; the directory never depends on the names processed before, and no
\* order makes the call fail.
C25_DescriptorDirectoryByName ==
    op = "update_target_repos_json" =>
        /\ outcome # "unbound_local_error"
        /\ \A p \in Namespaces \X EntryNames :
               IF \E n \in ProcessedNames :
                      /\ DescriptorDir(n) = p[1] /\ n[Len(n)] = p[2]
                      /\ WritesDescriptor(p[2])
               THEN descriptors[p] = DescriptorData(p[2], add_branch)
               ELSE descriptors[p] = InitialDescriptors[p]

\* The status printed for a run: updateSuccessful is true iff update_repository
\* returned, false with the error text iff it raised, and the exception went no further.
StatusTellsResult ==
    /\ Len(statuses) = 1
    /\ outcome = "ok"
    /\ DictGet(statuses[1], "updateSuccessful") <=> update_result = <<"returned">>
    /\ IF update_result = <<"returned">>
       THEN DictKeys(statuses[1]) = {"updateSuccessful"}
       ELSE /\ DictKeys(statuses[1]) = {"updateSuccessful", "error"}
            /\ update_result = <<"Exception", DictGet(statuses[1], "error")>>
\* Nothing is printed and what update_repository raised leaves the command.
NoStatusAndRaised ==
    /\ statuses = <<>>
    /\ update_result # <<"returned">> => outcome # "ok"

\* The functions init_repo calls, in the order of its statements, and the operation each
\* runs as.
StepOrder == <<"create_repository", "update_target_repos_from_fs",
               "generate_repositories_json", "register_target_files">>
StepOp == <<"create", "update_target_repos", "repositories_json", "register">>

C22_SessionsExclusive ==
    (op = "add_key" /\ pc # "done") => other \notin {"inside", "written"}

\* C23 as claimed: with --format-output every invocation of repo update prints exactly
\* one JSON status that tells how update_repository ended; without it nothing is
\* printed and the exception is raised again.
C23_OneStatusPerInvocation ==
    (op = "repo_update" /\ pc = "done") =>
        IF format_output THEN StatusTellsResult ELSE NoStatusAndRaised

\* C23: with --format-output an invocation of repo update in which update_repository
\* returned or raised an Exception prints exactly one JSON status: updateSuccessful
\* true iff it returned, false with the error text iff it raised, and the exception is
\* not propagated.  Without --format-output nothing is printed and the exception is
\* raised again.  An invocation that ends before update_repository is called (usage
\* error) or by an exception that is not an Exception prints no status.
C23_OneStatusPerCompletedUpdate ==
    (op = "repo_update" /\ pc = "done") =>
        IF format_output /\ update_result \notin {NotCalled, <<"BaseException">>}
        THEN StatusTellsResult
        ELSE NoStatusAndRaised

\* C23 witness: with --format-output update_repository raised and the one status
\* printed carries updateSuccessful false and the error text.
C23_Witness ==
    /\ op = "repo_update" /\ pc = "done"
    /\ format_output
    /\ update_result = <<"Exception", "clone failed">>
    /\ Len(statuses) = 1
    /\ DictGet(statuses[1], "error") = "clone failed"
    /\ outcome = "ok"

\* C27: when the roles are entered interactively and the field for the number of keys
\* of a role is left empty, create_repository uses the default, one key, exactly as if
\* the field were absent from roles_key_infos.
C27_EmptyFieldUsesDefault ==
    (op = "create" /\ roles_entered) =>
        /\ outcome # "type_error"
        /\ \A r \in left_empty \cap regDone :
               number[r] = 1 /\ Cardinality(vkeys[r]) = 1

\* C28: the check for an existing repository precedes every interactive prompt of
\* create_repository: when the repository already exists, the user was not asked for
\* role information.
C28_ExistsCheckBeforePrompts ==
    (op = "create" /\ outcome = "exists") => ~roles_entered

\* C31: when register_target_files has written the metadata, each of targets, snapshot
\* and timestamp is signed with at least threshold(role) distinct keys among those
\* _load_signing_keys loaded, for every threshold >= 1.
C31_SignedWithThresholdKeys ==
    (op = "register" /\ written > 0) =>
        \A r \in SignedRoles : Cardinality(SigningKeys(r)) >= threshold[r]

\* Token prompts the root loop of add_signing_key has issued and got an answer from.
RootTokenPrompts == Cardinality({j \in 1..Len(loopLog) : loopLog[j] = "token"})

\* C32: the key-loading loops are bounded by the number of keys of the role:
\* _load_signing_keys acquires at most N keys in total (keystore phase plus prompt loop)
\* for a role with N keys, and the root loop of add_signing_key issues at most
\* keys_num token prompts before writeall is reached.
C32_KeyLoadingBounded ==
    /\ \A r \in RoleNames :
          (op \in {"register", "expiry"} /\ vkeys[r] # {}) =>
              acquired[r] <= Cardinality(vkeys[r])
    /\ op = "add_key" => RootTokenPrompts <= keys_num

\* C32, the part about add_signing_key alone: the root loop issues at most keys_num
\* token prompts.
RootLoopBounded == op = "add_key" => RootTokenPrompts <= keys_num

\* C32, the termination part: with every step that can be taken eventually taken, a
\* call of add_signing_key, register_target_files or update_metadata_expiration_date
\* comes to a point where none of its steps is left.
LiveSpec == Init /\ [][Next]_vars /\ WF_vars(Next)

KeyLoadingTerminates ==
    (op \in {"add_key", "register", "expiry"}) ~>
        ~ENABLED (NextAddKey \/ NextLoad \/ NextRegister \/ NextExpiry)

\* update_metadata_expiration_date has printed "Updated expiration date of <role>".
ExpiryReported ==
    op = "expiry" /\ (pc = "ex_updated" \/ outcome \in {"ok", "commit_message_error"})

\* C33: update_metadata_expiration_date reports "Updated expiration date of <role>" only
\* if an update method was applied; for a role or key source without update method
\* (root; snapshot or timestamp loaded from a token; no key loaded at all) no metadata
\* is changed and no success is reported.
C33_ReportOnlyAfterUpdate ==
    op = "expiry" =>
        /\ ExpiryReported => updated # <<>>
        /\ updated = <<>> =>
               (fileWrites = <<>> /\ \A r \in RoleNames : expiration[r] = InitialExpiry)

\* C33, the part about the metadata alone: without an update nothing is changed.
NoUpdateChangesNothing ==
    (op = "expiry" /\ updated = <<>>) =>
        (fileWrites = <<>> /\ \A r \in RoleNames : expiration[r] = InitialExpiry)

\* Target repositories that received a descriptor under targets/<namespace>/ in this
\* run, and those repositories.json lists.
ReceivedDescriptor ==
    {e \in EntryNames : descriptors[<<namespace, e>>] # InitialDescriptors[<<namespace, e>>]}
ListedInRepositoriesJson ==
    {e \in EntryNames : NamespacedName(e) \in DictKeys(repositories_json)}

\* Both scans of init_repo have returned.
BothScansDone ==
    /\ caller = "init_repo" /\ op = "register"
    /\ \E i \in 1..Len(stepsLog) :
          stepsLog[i] = <<"return", "generate_repositories_json", "ok">>

\* C34: in init_repo, for every non-empty namespace, the set of target repositories
\* that receive a descriptor under targets/<namespace>/ equals the set of repositories
\* listed in repositories.json, both scans reading root_dir/namespace.
C34_DescriptorsMatchRepositoriesJson ==
    (BothScansDone /\ namespace # "") => ReceivedDescriptor = ListedInRepositoriesJson

\* C34 for the empty namespace, where root_dir/namespace/namespace is root_dir/namespace.
SameScanWithoutNamespace ==
    (BothScansDone /\ namespace = "") => ReceivedDescriptor = ListedInRepositoriesJson

====
